---- MODULE Spec2Model ----
(***************************************************************************)
(* Model of the viet-listener translation backend (src/server.ts): the     *)
(* normalizer, the dictionary (lexicon), the greedy longest-match          *)
(* segmenter, the translation clients with their cache, the span scorer    *)
(* and the dynamic-programming segmenter.                                  *)
(*                                                                         *)
(* Representation of strings.  A text is the sequence of its lexical       *)
(* tokens: syllables, punctuation marks and extra whitespace.  Two         *)
(* adjacent tokens are separated by one space, so the phrase               *)
(* syllables.slice(i, i + len).join(' ') is the sub-sequence of the        *)
(* syllables and two texts are the same string iff they are the same       *)
(* sequence.  A translation is a sequence of words in which the token ","  *)
(* closes a sense ("thing, piece" is <<"thing", ",", "piece">>).  The      *)
(* empty string is the empty sequence.                                     *)
(***************************************************************************)
EXTENDS Integers, Sequences, FiniteSets, TLC

\* ------------------------------------------------------------------ bounds
MaxTokens == 2      \* longest generic request text, in tokens
MaxPhrases == 3     \* longest list of lexicon phrases concatenated for the greedy segmenter
MaxTexts == 2       \* longest list of texts handed to a direct translate call
MaxCalls == 2       \* operations started in one run
MaxFaults == 1      \* backend responses in one run that are not complete and OK

\* --------------------------------------------------------------- JS values
Undefined == [def |-> FALSE, s |-> <<>>]
Str(s) == [def |-> TRUE, s |-> s]
\* JavaScript truthiness of a string-or-undefined value: undefined and "" are falsy
Truthy(v) == v.def /\ v.s # <<>>

Min(a, b) == IF a < b THEN a ELSE b

\* F applied to the value of e, e being evaluated once (a local const of the
\* source: the model checker evaluates a LET definition at each of its uses)
Bind(e, F(_)) == CHOOSE r \in {F(x) : x \in {e}} : TRUE
SetMax(S) == CHOOSE x \in S : \A y \in S : y <= x

\* ------------------------------------------------------------------- texts
SyllableTokens == {"cai", "nay", "la", "cua", "ai", "Cai"}
Punctuation == {"."}
Whitespace == {" "}

\* String.prototype.toLowerCase, token by token
LowerToken(t) ==
  CASE t = "Cai" -> "cai"
    [] t = "This" -> "this"
    [] OTHER -> t
toLowerCase(s) == [k \in DOMAIN s |-> LowerToken(s[k])]

\* text.trim().replace(punctuation, ' ').replace(/\s+/g, ' ').split(' ').filter(nonempty)
Normalize(text) == SelectSeq(text, LAMBDA t : t \notin (Punctuation \cup Whitespace))

\* -------------------------------------------------------------- dictionary
\* dictionary[key] of a JS object: undefined when the key is absent
DictGet(dict, key) == IF key \in DOMAIN dict THEN Str(dict[key]) ELSE Undefined

\* dictionary[lower] || dictionary[phrase]
DictEntry(dict, phrase) ==
  LET byLower == DictGet(dict, toLowerCase(phrase))
  IN  IF Truthy(byLower) THEN byLower ELSE DictGet(dict, phrase)

\* The dictionaries dictionary.json may hold (the last one: file missing).
ExampleDict == (<<"cai", "nay">> :> <<"this">>)
OverlapDict ==
  (<<"cai">> :> <<"thing", ",", "piece">>) @@ (<<"nay">> :> <<"this">>) @@
  (<<"cai", "nay">> :> <<"this">>) @@ (<<"nay", "la">> :> <<"this", "is">>) @@
  (<<"cai", "nay", "la">> :> <<"this", "is">>)
OddDict ==
  (<<"nay", "la">> :> <<>>) @@ (<<"Cai", "nay">> :> <<"This", "one">>) @@
  (<<"la">> :> <<"is">>)
EmptyDict == [k \in {} |-> <<>>]
DictChoices == {ExampleDict, OverlapDict, OddDict, EmptyDict}

VARIABLES
  GOOGLE_API_KEY,    \* server.ts:16  TRUE iff the key is set (non-empty)
  GEMINI_API_KEY,    \* server.ts:15  TRUE iff the key is set (non-empty)
  dictionary,        \* server.ts:161 phrase -> translation
  translationCache,  \* server.ts:23  <<source, target, text>> -> translation
  op,                \* the operation in progress: "none", "translate", "segment", "handle"
  pc,                \* "idle", or "fetch" while a translate call awaits the backend
  frame,             \* locals of the suspended googleTranslate / geminiTranslate call
  seg,               \* locals of the suspended smartSegmentAndTranslate call
  req,               \* locals of the suspended handleTranslate call
  outcome,           \* what the last finished operation returned, threw or answered
  prev,              \* the outcome of the operation before it
  tcall,             \* the latest translate call as seen by its caller and by the backend
  calls,             \* operations started so far
  faults,            \* backend responses that were not complete and OK so far
  lastSpans,         \* the spans of the last smartSegmentAndTranslate call after step 3
  inflight,          \* the calls started concurrently, each with its own locals
  obtained,          \* the <<cache key, translation>> pairs backend responses have held
  greedyIn,          \* the lexicon phrases whose concatenation was last segmented
  greedyOut,         \* the words segmentVietnamese returned for it
  scores,            \* the scored spans handed to steps 4-5 on their own: [N, spans]
  solved,            \* what steps 4-5 made of them: dp, choice, segments
  wordFrequencyFile, \* ProcessAudio: the file at WORD_FREQ_PATH, [exists, entries]
  lastMerge,         \* the last mergeWordFrequency call: file before, newCounts, file after
  prevMerge,         \* the mergeWordFrequency call before it
  merges,            \* mergeWordFrequency calls so far
  state,             \* TranscribeLiveVi: the AppState object (part_000:1104-1116)
  markdownFile,      \* the file named state.outputFile: [exists, headers, blocks]
  tasks,             \* the translate promises, the processing promises, shutdown()
  atTrigger,         \* what was buffered or in flight when shutdown was triggered
  link,              \* AppState: reconnectAttempts, isShuttingDown, deepgramConnection
  connections,       \* the Deepgram connections created so far
  timers,            \* the setTimeout calls of attemptReconnect
  soxListeners,      \* "data" listeners on state.soxProcess.stdout
  audit              \* delays scheduled since the last Open, sends of the last chunk

\* -------------------------------------------------------- greedy segmenter
SetMin(S) == CHOOSE x \in S : \A y \in S : x <= y
\* (a loop that tries the lengths upwards takes the shortest hit)
ShortestHit(hits) == SetMin(hits)
\* the loop tries len = min(4, rest) down to 2 and breaks at the first hit
FirstHit(hits) == SetMax(hits)

\* the while loop of segmentVietnamese from syllable i (1-based)
RECURSIVE SegmentFrom(_, _, _)
SegmentFrom(syllables, i, dict) ==
  IF i > Len(syllables) THEN <<>>
  ELSE
    LET maxLen == Min(4, Len(syllables) - i + 1)
        hits == {len \in 2..maxLen :
                   Truthy(DictEntry(dict, SubSeq(syllables, i, i + len - 1)))}
    IN  IF hits # {}
        THEN LET len == FirstHit(hits)
             IN  <<SubSeq(syllables, i, i + len - 1)>> \o SegmentFrom(syllables, i + len, dict)
        ELSE <<SubSeq(syllables, i, i)>> \o SegmentFrom(syllables, i + 1, dict)

segmentVietnamese(text, dict) == SegmentFrom(Normalize(text), 1, dict)

RECURSIVE Concat(_)
Concat(phrases) ==
  IF phrases = <<>> THEN <<>> ELSE Head(phrases) \o Concat(Tail(phrases))

SeqsUpTo(S, n) == UNION {[1..k -> S] : k \in 0..n}

greedyVars == <<greedyIn, greedyOut>>
solverVars == <<scores, solved>>
keyVars == <<GOOGLE_API_KEY, GEMINI_API_KEY>>
concVars == <<inflight, obtained>>
serverVars ==
  <<translationCache, op, pc, frame, seg, req, outcome, prev, tcall, calls, faults, lastSpans,
    concVars>>
freqVars == <<wordFrequencyFile, lastMerge, prevMerge, merges>>
\* the state of the command-line scripts (ProcessAudio, TranscribeLiveVi)
liveVars == <<state, markdownFile, tasks, atTrigger>>
linkVars == <<link, connections, timers, soxListeners, audit>>
scriptVars == <<freqVars, liveVars, linkVars>>
vars == <<keyVars, dictionary, serverVars, greedyVars, solverVars, scriptVars>>

NoFrame == [fn |-> "none"]
NoSeg == [active |-> FALSE]
NoReq == [active |-> FALSE]
NoOutcome == [op |-> "none"]
NoCall == [status |-> "none"]
NoScored == <<>>
NoScores == [N |-> 0, spans |-> <<>>]
NoSolution == [done |-> FALSE]

\* steps 4-5 have not been run on their own
InitSolverVars ==
  /\ scores = NoScores
  /\ solved = NoSolution
NoMerge == [done |-> FALSE]

NoFile == [exists |-> FALSE, headers |-> 0, blocks |-> <<>>]
NoTrigger == [triggered |-> FALSE]

\* part_000:1104-1116 (the fields the cut and shutdown handlers use), the
\* output file not yet written, no promise, shutdown() not called
InitLiveVars ==
  /\ state = [transcriptBuffer |-> <<>>, translatedEntries |-> <<>>, segmentNumber |-> 0,
              isShuttingDown |-> FALSE, processingPromises |-> <<>>,
              translationQueue |-> <<>>]
  /\ markdownFile = NoFile
  /\ tasks = [translate |-> <<>>, processing |-> <<>>, shutdown |-> "idle", waitFor |-> {}]
  /\ atTrigger = NoTrigger

\* main (part_000:1603-1612): sox started, the first connection created with
\* the Open handler that pipes the audio, nothing scheduled
InitLinkVars ==
  /\ link = [reconnectAttempts |-> 0, isShuttingDown |-> FALSE, deepgramConnection |-> 1,
             exited |-> FALSE]
  /\ connections = <<[status |-> "connecting", events |-> {}, pipesOnOpen |-> TRUE,
                      cause |-> 0, attempts |-> 0]>>
  /\ timers = <<>>
  /\ soxListeners = 0
  /\ audit = [sinceOpen |-> <<>>, lastSends |-> 0, throws |-> 0]

\* the scripts have not run
InitScripts ==
  /\ InitLinkVars
  /\ wordFrequencyFile = [exists |-> FALSE, entries |-> <<>>]
  /\ lastMerge = NoMerge
  /\ prevMerge = NoMerge
  /\ merges = 0
  /\ InitLiveVars

InitServerVars ==
  /\ translationCache = [k \in {} |-> <<>>]
  /\ op = "none"
  /\ pc = "idle"
  /\ frame = NoFrame
  /\ seg = NoSeg
  /\ req = NoReq
  /\ outcome = NoOutcome
  /\ prev = NoOutcome
  /\ tcall = NoCall
  /\ calls = 0
  /\ faults = 0
  /\ lastSpans = NoScored
  /\ inflight = <<>>
  /\ obtained = {}

InitGreedy ==
  /\ GOOGLE_API_KEY = FALSE
  /\ GEMINI_API_KEY = FALSE
  /\ InitServerVars
  /\ dictionary \in DictChoices
  /\ greedyIn = <<>>
  /\ greedyOut = <<>>
  /\ InitSolverVars
  /\ InitScripts

\* segmentVietnamese applied to the concatenation of a list of lexicon phrases
GreedyCall ==
  \E phrases \in SeqsUpTo(DOMAIN dictionary, MaxPhrases) :
    /\ greedyIn' = phrases
    /\ greedyOut' = segmentVietnamese(Concat(phrases), dictionary)
    /\ UNCHANGED <<keyVars, dictionary, serverVars, solverVars, scriptVars>>

NextGreedy == GreedyCall

SpecGreedy == InitGreedy /\ [][NextGreedy]_vars

\* ----------------------------------------------------------------- backend
\* The translation the backend gives for one text (fixed for a whole run).
FirstSenseOf(tr) ==
  IF \E k \in DOMAIN tr : tr[k] = ","
  THEN SubSeq(tr, 1, (CHOOSE k \in DOMAIN tr : tr[k] = "," /\ \A m \in 1..(k - 1) : tr[m] # ",") - 1)
  ELSE tr

SingleGloss(t) ==
  CASE t = "cai" -> <<"thing", ",", "piece">>
    [] t = "Cai" -> <<"Thing">>
    [] t = "nay" -> <<"this">>
    [] t = "la" -> <<"is">>
    [] t = "cua" -> <<"of">>
    [] t = "ai" -> <<"who">>
    [] OTHER -> <<t>>

RECURSIVE WordByWord(_)
WordByWord(syllables) ==
  IF syllables = <<>> THEN <<>>
  ELSE FirstSenseOf(SingleGloss(Head(syllables))) \o WordByWord(Tail(syllables))

Oracle(source, target, text) ==
  IF source # "vi" THEN <<"vi">> \o text
  ELSE CASE text = <<"cai", "nay">> -> <<"This">>
         [] text = <<"cai", "la">> -> <<"is", "thing">>
         [] text = <<"nay", "la">> -> <<>>
         [] text = <<"la", "cua">> -> <<"belongs", "to">>
         [] text = <<"cua", "ai">> -> <<"who", "of">>
         [] text = <<"cai", "nay", "la">> -> <<"this", "is", "the", "one">>
         [] Len(text) = 1 -> SingleGloss(text[1])
         [] OTHER -> WordByWord(Normalize(text))

\* What a backend response can look like, given the batch it answers.
ResponseShapes == {"full", "drop_last", "drop_first", "empty", "extra"}

\* The entries of the response: data.translations (Google), the non-blank
\* numbered lines "num. text" (Gemini).
BackendAnswer(batch, source, target, shape) ==
  LET n == Len(batch)
      full == [j \in 1..n |-> [num |-> j, text |-> Oracle(source, target, batch[j])]]
  IN  CASE shape = "full" -> full
        [] shape = "drop_last" -> SubSeq(full, 1, n - 1)
        [] shape = "drop_first" -> SubSeq(full, 2, n)
        [] shape = "empty" -> <<>>
        [] shape = "extra" -> Append(full, [num |-> n + 1, text |-> <<"extra">>])

\* ------------------------------------------------------ translation client
GOOGLE_BATCH == 128
GEMINI_BATCH == 20

CacheKey(source, target, text) == <<source, target, text>>
\* translationCache.get(key)
CacheGet(cache, key) == IF key \in DOMAIN cache THEN Str(cache[key]) ELSE Undefined
\* (the source text stored in place of its translation)
CacheSetSource(cache, key, value) ==
  [k \in DOMAIN cache \cup {key} |-> IF k = key THEN key[3] ELSE cache[k]]
\* translationCache.set(key, value)
CacheSet(cache, key, value) == [k \in DOMAIN cache \cup {key} |-> IF k = key THEN value ELSE cache[k]]

\* `if (cached)`: the cache lookup counts as a hit
CacheHit(cache, source, target, text) == Truthy(CacheGet(cache, CacheKey(source, target, text)))

Indices(n) == [k \in 1..n |-> k]

\* uncachedTexts.slice(b, b + size), b counted from 0
Slice(s, b, size) == SubSeq(s, b + 1, Min(Len(s), b + size))

\* `${batch[j]}`: the text, or "undefined" past the end of the batch
BatchText(batch, j) == IF j \in DOMAIN batch THEN batch[j] ELSE <<"undefined">>

\* The items of one request: q: batch (server.ts:128), or the lines
\* `${i + 1}. ${t}` with i from 0 (server.ts:51)
Payload(fn, batch) ==
  [k \in DOMAIN batch |-> [num |-> IF fn = "gemini" THEN (k - 1) + 1 ELSE 0, text |-> batch[k]]]

\* The synchronous head of googleTranslate / geminiTranslate, up to the first
\* fetch.  status: "throw", "return" (every text cached) or "await".
TranslateBegin(cache, texts, source, target) ==
  LET fn == IF ~GOOGLE_API_KEY /\ GEMINI_API_KEY THEN "gemini"
            ELSE IF ~GOOGLE_API_KEY THEN "none" ELSE "google"
      results == [i \in 1..Len(texts) |->
                    IF CacheHit(cache, source, target, texts[i])
                    THEN CacheGet(cache, CacheKey(source, target, texts[i]))
                    ELSE Undefined]
      uncachedIndices == SelectSeq(Indices(Len(texts)),
                                   LAMBDA i : ~CacheHit(cache, source, target, texts[i]))
      uncachedTexts == [k \in DOMAIN uncachedIndices |-> texts[uncachedIndices[k]]]
      size == IF fn = "gemini" THEN GEMINI_BATCH ELSE GOOGLE_BATCH
      ghost == [texts |-> texts, source |-> source, target |-> target,
                cacheAtStart |-> cache, sent |-> <<>>, missing |-> {}, httpError |-> FALSE,
                status |-> "none", results |-> <<>>, fn |-> fn,
                uncachedIndices |-> uncachedIndices, numbered |-> <<>>, stored |-> <<>>]
  IN  IF fn = "none"
      THEN [status |-> "throw", value |-> "No translation API key set", frame |-> NoFrame,
            cache |-> cache, tcall |-> [ghost EXCEPT !.status = "throw"]]
      ELSE IF uncachedTexts = <<>>
      THEN [status |-> "return", value |-> results, frame |-> NoFrame, cache |-> cache,
            tcall |-> [ghost EXCEPT !.status = "return", !.results = results]]
      ELSE [status |-> "await", value |-> <<>>,
            frame |-> [fn |-> fn, texts |-> texts, source |-> source, target |-> target,
                       results |-> results, uncachedTexts |-> uncachedTexts,
                       uncachedIndices |-> uncachedIndices, b |-> 0, uncachedIdx |-> 0],
            cache |-> cache,
            tcall |-> [ghost EXCEPT !.status = "await",
                                    !.sent = <<Slice(uncachedTexts, 0, size)>>,
                                    !.numbered = <<Payload(fn, Slice(uncachedTexts, 0, size))>>]]

\* server.ts:144-152, entries lo..hi of data.data.translations, one after the
\* other (the range is halved to keep the evaluation shallow)
RECURSIVE GoogleStore(_, _, _, _, _)
GoogleStore(st0, f, batch, lo, hi) ==
  Bind(st0, LAMBDA st :
    IF lo > hi THEN st
    ELSE IF lo < hi
    THEN GoogleStore(GoogleStore(st, f, batch, lo, (lo + hi) \div 2), f, batch,
                     ((lo + hi) \div 2) + 1, hi)
    ELSE
      LET j == lo
          translated == st.entries[j].text
          pos == st.uncachedIdx + 1
          results1 == IF pos \in DOMAIN f.uncachedIndices
                      THEN [st.results EXCEPT ![f.uncachedIndices[pos]] = Str(translated)]
                      ELSE st.results
          cache1 == CacheSet(st.cache, CacheKey(f.source, f.target, BatchText(batch, j)), translated)
      IN  [st EXCEPT !.results = results1, !.cache = cache1,
                                 !.uncachedIdx = st.uncachedIdx + 1,
                                 !.stored = Append(@, [b |-> f.b, j |-> j,
                                                       at |-> IF pos \in DOMAIN f.uncachedIndices
                                                              THEN f.uncachedIndices[pos] ELSE 0])])

\* lines[j]?.replace(/^\d+\.\s*/, '').trim() || batch[j]
GeminiParse(lines, j, batch) ==
  IF j \in DOMAIN lines /\ lines[j].text # <<>> THEN lines[j].text ELSE batch[j]

\* server.ts:74-82, items lo..hi of the batch, one after the other
RECURSIVE GeminiStore(_, _, _, _, _)
GeminiStore(st0, f, batch, lo, hi) ==
  Bind(st0, LAMBDA st :
    IF lo > hi THEN st
    ELSE IF lo < hi
    THEN GeminiStore(GeminiStore(st, f, batch, lo, (lo + hi) \div 2), f, batch,
                     ((lo + hi) \div 2) + 1, hi)
    ELSE
      LET j == lo
          translated == GeminiParse(st.entries, j, batch)
          originalIdx == f.uncachedIndices[f.b + j]
          results1 == [st.results EXCEPT ![originalIdx] = Str(translated)]
          cache1 == CacheSet(st.cache, CacheKey(f.source, f.target, batch[j]), translated)
      IN  [st EXCEPT !.results = results1, !.cache = cache1,
                                 !.stored = Append(@, [b |-> f.b, j |-> j, at |-> originalIdx])])

\* The translate call resumed by the backend's answer to the batch it awaits.
TranslateResume(cache, f, tc, ok, shape) ==
  LET size == IF f.fn = "gemini" THEN GEMINI_BATCH ELSE GOOGLE_BATCH
      batch == Slice(f.uncachedTexts, f.b, size)
      st0 == [entries |-> BackendAnswer(batch, f.source, f.target, shape),
              results |-> f.results, cache |-> cache, uncachedIdx |-> f.uncachedIdx,
              stored |-> tc.stored]
  IN
  Bind(IF f.fn = "gemini" THEN GeminiStore(st0, f, batch, 1, Len(batch))
       ELSE GoogleStore(st0, f, batch, 1, Len(st0.entries)),
       LAMBDA st :
  LET b1 == f.b + size
      \* the input positions whose numbered entry the response lacks
      missing == {f.uncachedIndices[f.b + j] : j \in {m \in DOMAIN batch :
                    \A e \in DOMAIN st0.entries : st0.entries[e].num # m}}
  IN  IF ~ok
      THEN [status |-> "throw",
            value |-> IF f.fn = "gemini" THEN "Gemini API error" ELSE "Google Translate API error",
            frame |-> NoFrame, cache |-> cache,
            tcall |-> [tc EXCEPT !.status = "throw", !.httpError = TRUE]]
      ELSE IF b1 < Len(f.uncachedTexts)
      THEN [status |-> "await", value |-> <<>>,
            frame |-> [f EXCEPT !.results = st.results, !.b = b1, !.uncachedIdx = st.uncachedIdx],
            cache |-> st.cache,
            tcall |-> [tc EXCEPT !.sent = Append(@, Slice(f.uncachedTexts, b1, size)),
                                 !.numbered = Append(@, Payload(f.fn, Slice(f.uncachedTexts, b1, size))),
                                 !.stored = st.stored,
                                 !.missing = @ \cup missing]]
      ELSE [status |-> "return", value |-> st.results, frame |-> NoFrame, cache |-> st.cache,
            tcall |-> [tc EXCEPT !.status = "return", !.results = st.results,
                                 !.stored = st.stored,
                                 !.missing = @ \cup missing]])

\* --------------------------------------------------------- operation frame
\* An operation ends: its outcome is recorded (with the dictionary at its start
\* and at its end) and the task is idle again.
Finish(opName, input, dict0, status, value, cache1, dict1, tcall1, scored1) ==
  /\ outcome' = [op |-> opName, input |-> input, dict0 |-> dict0, dict1 |-> dict1,
                 status |-> status, value |-> value]
  /\ prev' = outcome
  /\ translationCache' = cache1
  /\ dictionary' = dict1
  /\ tcall' = tcall1
  /\ op' = "none"
  /\ pc' = "idle"
  /\ frame' = NoFrame
  /\ seg' = NoSeg
  /\ req' = NoReq
  /\ lastSpans' = scored1
  /\ UNCHANGED concVars

\* An operation suspends at the fetch of a translate call.
Suspend(opName, frame1, seg1, req1, cache1, tcall1) ==
  /\ op' = opName
  /\ pc' = "fetch"
  /\ frame' = frame1
  /\ seg' = seg1
  /\ req' = req1
  /\ translationCache' = cache1
  /\ tcall' = tcall1
  /\ UNCHANGED <<outcome, prev, dictionary, lastSpans, concVars>>

\* The backend's answer to the pending fetch: OK or not, and its shape.
Answers == {<<TRUE, shape>> : shape \in ResponseShapes} \cup {<<FALSE, "full">>}
Faulty(answer) == answer # <<TRUE, "full">>
AnswerAllowed(answer) == ~Faulty(answer) \/ faults < MaxFaults
CountFault(answer) == faults' = IF Faulty(answer) THEN faults + 1 ELSE faults

\* ------------------------------------------ direct calls of googleTranslate
TranslateTexts == {<<"cai">>, <<"nay", "la">>, <<"cai", "nay">>}
Directions == {<<"vi", "en">>, <<"en", "vi">>}

CallTranslate ==
  /\ pc = "idle"
  /\ calls < MaxCalls
  /\ \E texts \in SeqsUpTo(TranslateTexts, MaxTexts), dir \in Directions :
       \E r \in {TranslateBegin(translationCache, texts, dir[1], dir[2])} :
       LET input == [texts |-> texts, source |-> dir[1], target |-> dir[2]]
       IN  IF r.status = "await"
           THEN Suspend("translate", r.frame, NoSeg, NoReq, r.cache, r.tcall)
           ELSE Finish("translate", input, dictionary, r.status, r.value, r.cache,
                       dictionary, r.tcall, lastSpans)
  /\ calls' = calls + 1
  /\ UNCHANGED <<keyVars, faults, greedyVars, solverVars, scriptVars>>

TranslateRespond ==
  /\ pc = "fetch"
  /\ op = "translate"
  /\ \E answer \in Answers :
       /\ AnswerAllowed(answer)
       /\ CountFault(answer)
       /\ \E r \in {TranslateResume(translationCache, frame, tcall, answer[1], answer[2])} :
          LET input == [texts |-> frame.texts, source |-> frame.source, target |-> frame.target]
          IN  IF r.status = "await"
              THEN Suspend("translate", r.frame, NoSeg, NoReq, r.cache, r.tcall)
              ELSE Finish("translate", input, dictionary, r.status, r.value, r.cache,
                          dictionary, r.tcall, lastSpans)
  /\ UNCHANGED <<keyVars, calls, greedyVars, solverVars, scriptVars>>

InitKeys ==
  /\ GOOGLE_API_KEY \in BOOLEAN
  /\ GEMINI_API_KEY \in BOOLEAN

InitTranslate ==
  /\ InitKeys
  /\ InitServerVars
  /\ dictionary = EmptyDict
  /\ greedyIn = <<>>
  /\ greedyOut = <<>>
  /\ InitSolverVars
  /\ InitScripts

NextTranslate == CallTranslate \/ TranslateRespond

SpecTranslate == InitTranslate /\ [][NextTranslate]_vars

\* ------------------------------- googleTranslate on lists longer than a batch
MaxBatchTexts == 200   \* longest list of texts handed to one translate call

\* a list of n one-syllable texts
ManyTexts(n) == [k \in 1..n |-> <<CASE k % 3 = 1 -> "cai" [] k % 3 = 2 -> "nay" [] OTHER -> "la">>]

\* list lengths around the two batch sizes
BatchLengths == {n \in {1, GEMINI_BATCH + 1, GOOGLE_BATCH + 1, MaxBatchTexts} : n <= MaxBatchTexts}

CallBatch ==
  /\ pc = "idle"
  /\ calls < MaxCalls
  /\ \E n \in BatchLengths :
       \E r \in {TranslateBegin(translationCache, ManyTexts(n), "vi", "en")} :
       LET input == [texts |-> ManyTexts(n), source |-> "vi", target |-> "en"]
       IN  IF r.status = "await"
           THEN Suspend("batch", r.frame, NoSeg, NoReq, r.cache, r.tcall)
           ELSE Finish("batch", input, dictionary, r.status, r.value, r.cache,
                       dictionary, r.tcall, lastSpans)
  /\ calls' = calls + 1
  /\ UNCHANGED <<keyVars, faults, greedyVars, solverVars, scriptVars>>

BatchRespond ==
  /\ pc = "fetch"
  /\ op = "batch"
  /\ \E answer \in Answers :
       /\ AnswerAllowed(answer)
       /\ CountFault(answer)
       /\ \E r \in {TranslateResume(translationCache, frame, tcall, answer[1], answer[2])} :
          LET input == [texts |-> frame.texts, source |-> frame.source, target |-> frame.target]
          IN  IF r.status = "await"
              THEN Suspend("batch", r.frame, NoSeg, NoReq, r.cache, r.tcall)
              ELSE Finish("batch", input, dictionary, r.status, r.value, r.cache,
                          dictionary, r.tcall, lastSpans)
  /\ UNCHANGED <<keyVars, calls, greedyVars, solverVars, scriptVars>>

InitBatch == InitTranslate

NextBatch == CallBatch \/ BatchRespond

SpecBatch == InitBatch /\ [][NextBatch]_vars

\* ------------------------------------------------ smartSegmentAndTranslate
\* Math.min(4, N)
MAX_SPAN(N) == Min(4, N)

\* The pairs (i, len) of the loops "for i in 0..N-1, for len in minLen..
\* min(MAX_SPAN, N - i)", in loop order; i counts from 0 as in the source.
RECURSIVE CandFrom(_, _, _, _)
CandFrom(i, len, N, minLen) ==
  IF i >= N THEN <<>>
  ELSE IF len > Min(MAX_SPAN(N), N - i) THEN CandFrom(i + 1, minLen, N, minLen)
  ELSE <<<<i, len>>>> \o CandFrom(i, len + 1, N, minLen)
CandSeq(N, minLen) == CandFrom(0, minLen, N, minLen)
CandSet(N) == {<<i, len>> : i \in 0..(N - 1), len \in 1..4} \cap
              {c \in (0..N) \X (1..4) : c[2] <= Min(MAX_SPAN(N), N - c[1])}

\* (slice(i, len) instead of slice(i, i + len))
PhraseSliceEnd(syllables, i, len) == SubSeq(syllables, i + 1, len)
\* syllables.slice(i, i + len).join(' ')
Phrase(syllables, i, len) == SubSeq(syllables, i + 1, i + len)

\* query: the position of the span's phrase in toTranslate (0: not queued);
\* registered: step 3 wrote the span into the dictionary
NullSpan == [null |-> TRUE, text |-> <<>>, translation |-> Undefined,
             fromDictionary |-> FALSE, score |-> 0, query |-> 0, registered |-> FALSE]

\* the three score tiers (server.ts:296, 352, 356)
\* (a dictionary span scored like a coincidental grouping)
DictScoreLow(len) == len * 1
DictScore(len) == len * 10
CompoundScore(len) == len * 8
PlainScore(len) == len * 1

\* Step 1 (server.ts:286-302): the dictionary spans
DictSpans(dict, syllables) ==
  [c \in CandSet(Len(syllables)) |->
     LET phrase == Phrase(syllables, c[1], c[2])
         dictEntry == DictEntry(dict, phrase)
     IN  IF Truthy(dictEntry)
         THEN [null |-> FALSE, text |-> phrase, translation |-> dictEntry,
               fromDictionary |-> TRUE, score |-> DictScore(c[2]), query |-> 0,
               registered |-> FALSE]
         ELSE NullSpan]

\* Step 1: the n-grams queued for the backend, in loop order
ToTranslate(dict, syllables) ==
  LET unknown == SelectSeq(CandSeq(Len(syllables), 1),
                           LAMBDA c : ~Truthy(DictEntry(dict, Phrase(syllables, c[1], c[2]))))
  IN  [j \in DOMAIN unknown |->
         [text |-> Phrase(syllables, unknown[j][1], unknown[j][2]),
          i |-> unknown[j][1], len |-> unknown[j][2]]]

\* Step 2 (server.ts:305-321): translations[j], or the phrase itself when
\* there is no API key, fills the span of toTranslate[j]
FillSpans(spans, toTranslate, translations) ==
  [c \in DOMAIN spans |->
     IF \E j \in DOMAIN toTranslate : <<toTranslate[j].i, toTranslate[j].len>> = c
     THEN LET j == CHOOSE j \in DOMAIN toTranslate : <<toTranslate[j].i, toTranslate[j].len>> = c
          IN  [null |-> FALSE, text |-> toTranslate[j].text, translation |-> translations[j],
               fromDictionary |-> FALSE, score |-> 0, query |-> j, registered |-> FALSE]
     ELSE spans[c]]

\* String.prototype.trim on a token sequence
RECURSIVE TrimLeft(_)
TrimLeft(s) == IF s # <<>> /\ Head(s) \in Whitespace THEN TrimLeft(Tail(s)) ELSE s
RECURSIVE TrimRight(_)
TrimRight(s) ==
  IF s # <<>> /\ s[Len(s)] \in Whitespace THEN TrimRight(SubSeq(s, 1, Len(s) - 1)) ELSE s
Trim(s) == TrimRight(TrimLeft(s))

\* translation.split(',')[0] || ''
FirstSense(tr) == FirstSenseOf(tr)

\* parts.join(' '): an empty part leaves a doubled or leading space, which no
\* trimmed translation has; it is kept as an empty token
RECURSIVE Join(_)
Join(parts) ==
  IF parts = <<>> THEN <<>>
  ELSE (IF Head(parts) = <<>> THEN <<"">> ELSE Head(parts)) \o Join(Tail(parts))

Reverse(s) == [k \in DOMAIN s |-> s[Len(s) + 1 - k]]

\* compoundTrans.split(' ').length: a comma stays attached to its word
WordCount(tr) == Cardinality({k \in DOMAIN tr : tr[k] # ","})

\* server.ts:345-349
\* (the reversed concatenation not compared)
IsCompoundForwardOnly(compoundTrans, parts) ==
  /\ compoundTrans # <<>>
  /\ compoundTrans # Join(parts)
  /\ WordCount(compoundTrans) <= 3
IsCompound(compoundTrans, parts) ==
  /\ compoundTrans # <<>>
  /\ compoundTrans # Join(parts)
  /\ compoundTrans # Join(Reverse(parts))
  /\ WordCount(compoundTrans) <= 3

\* Step 3 (server.ts:326-359) over the multi-syllable candidates cands[k..]:
\* scores the spans, registers detected compounds; a translation that is
\* undefined makes .toLowerCase() / .split() throw a TypeError.
RECURSIVE ScoreSpans(_, _, _)
ScoreSpans(st0, cands, k) ==
  Bind(st0, LAMBDA st :
    IF k > Len(cands) \/ st.thrown THEN st
    ELSE
      LET c == cands[k]
          span == st.spans[c]
          singles == [m \in 1..c[2] |-> st.spans[<<c[1] + m - 1, 1>>]]
      IN  IF span.fromDictionary THEN ScoreSpans(st, cands, k + 1)
          ELSE IF ~span.translation.def \/ \E m \in DOMAIN singles : ~singles[m].translation.def
          THEN [st EXCEPT !.thrown = TRUE]
          ELSE
            LET compoundTrans == Trim(toLowerCase(span.translation.s))
                parts == [m \in DOMAIN singles |->
                            toLowerCase(Trim(FirstSense(singles[m].translation.s)))]
            IN  IF IsCompound(compoundTrans, parts)
                THEN ScoreSpans([st EXCEPT !.spans[c].score = CompoundScore(c[2]),
                                           !.spans[c].registered = TRUE,
                                           !.dict = (toLowerCase(span.text) :> span.translation.s) @@ @],
                                cands, k + 1)
                ELSE ScoreSpans([st EXCEPT !.spans[c].score = PlainScore(c[2])], cands, k + 1))

\* (the single-syllable spans left at score 0)
BaselineSkipped(spans) == spans
\* server.ts:362-365
Baseline(spans) ==
  [c \in DOMAIN spans |->
     IF c[2] = 1 /\ ~spans[c].null /\ spans[c].score = 0
     THEN [spans[c] EXCEPT !.score = 1] ELSE spans[c]]

\* -Infinity of dp[]; every finite total is >= 0
NegInf == -1
NoChoice == [start |-> -1, len |-> 0]

\* (the score of the span alone)
SpanScoreOnly(best, score) == score
\* dp[i] + span.score
NewScore(best, score) == best + score

\* (an update on a tie as well)
ImprovesOrTies(newScore, old) == old = NegInf \/ newScore >= old
\* newScore > dp[i + len]
Improves(newScore, old) == old = NegInf \/ newScore > old

\* Step 4 (server.ts:373-384) over the candidates cands[k..] in loop order
RECURSIVE DPLoop(_, _, _, _)
DPLoop(st0, spans, cands, k) ==
  Bind(st0, LAMBDA st :
    IF k > Len(cands) THEN st
    ELSE
      LET i == cands[k][1]
          len == cands[k][2]
          newScore == NewScore(st.dp[i], spans[cands[k]].score)
      IN  IF st.dp[i] = NegInf \/ spans[cands[k]].null THEN DPLoop(st, spans, cands, k + 1)
          ELSE IF Improves(newScore, st.dp[i + len])
          THEN DPLoop([dp |-> [st.dp EXCEPT ![i + len] = newScore],
                       choice |-> [st.choice EXCEPT ![i + len] = [start |-> i, len |-> len]]],
                      spans, cands, k + 1)
          ELSE DPLoop(st, spans, cands, k + 1))

SolveDP(spans, N) ==
  Bind(CandSeq(N, 1), LAMBDA cands :
    DPLoop([dp |-> [j \in 0..N |-> IF j = 0 THEN 0 ELSE NegInf],
            choice |-> [j \in 0..N |-> NoChoice]],
           spans, cands, 1))

\* Step 5 (server.ts:387-394): the segments from pos back to 0, reversed;
\* steps caps the recursion of the model at N + 1 visits
RECURSIVE Backtrack(_, _, _)
Backtrack(choice, pos, steps) ==
  IF pos <= 0 THEN [ok |-> TRUE, segments |-> <<>>]
  ELSE IF choice[pos] = NoChoice \/ steps = 0 THEN [ok |-> FALSE, segments |-> <<>>]
  ELSE Bind(Backtrack(choice, choice[pos].start, steps - 1), LAMBDA rest :
         [ok |-> rest.ok, segments |-> Append(rest.segments, choice[pos])])

\* Steps 3-5: from the filled spans to the returned word list.  Each entry
\* carries, beside the fields of WordBreakdown, the segment and the score it
\* was built from and its position in the translate call.
SegmentFinish(dict, spans, N) ==
  Bind(ScoreSpans([spans |-> spans, dict |-> dict, thrown |-> FALSE], CandSeq(N, 2), 1),
       LAMBDA scored :
  Bind(Baseline(scored.spans), LAMBDA final :
  Bind(Backtrack(SolveDP(final, N).choice, N, N + 1), LAMBDA back :
    IF scored.thrown \/ ~back.ok
    THEN [status |-> "throw", value |-> "TypeError", dict |-> scored.dict, scored |-> final]
    ELSE [status |-> "return",
          value |-> [k \in DOMAIN back.segments |->
                       LET c == <<back.segments[k].start, back.segments[k].len>>
                       IN  [word |-> final[c].text, translation |-> final[c].translation,
                            fromDictionary |-> final[c].fromDictionary,
                            start |-> c[1], len |-> c[2], score |-> final[c].score,
                            query |-> final[c].query]],
          dict |-> scored.dict, scored |-> final])))

API_KEY == GOOGLE_API_KEY \/ GEMINI_API_KEY

\* smartSegmentAndTranslate up to its await, or to its end when it does not
\* call the backend.
SegmentBegin(dict, cache, text) ==
  Bind(Normalize(text), LAMBDA syllables :
  Bind(DictSpans(dict, syllables), LAMBDA spans :
  Bind(ToTranslate(dict, syllables), LAMBDA toTranslate :
  Bind(TranslateBegin(cache, [j \in DOMAIN toTranslate |-> toTranslate[j].text], "vi", "en"),
       LAMBDA r :
  LET N == Len(syllables)
      texts == [j \in DOMAIN toTranslate |-> toTranslate[j].text]
      suspended == [active |-> TRUE, text |-> text, syllables |-> syllables, spans |-> spans,
                    toTranslate |-> toTranslate, dict0 |-> dict]
      Local(F(_)) ==
        Bind(SegmentFinish(dict, FillSpans(spans, toTranslate,
                                           [j \in DOMAIN texts |-> Str(texts[j])]), N), F)
      Cached(F(_)) == Bind(SegmentFinish(dict, FillSpans(spans, toTranslate, r.value), N), F)
  IN  IF N = 0
      THEN [status |-> "return", value |-> <<>>, dict |-> dict, cache |-> cache,
            seg |-> NoSeg, frame |-> NoFrame, tcall |-> NoCall, scored |-> NoScored]
      ELSE IF toTranslate # <<>> /\ API_KEY
      THEN IF r.status = "await"
           THEN [status |-> "await", value |-> <<>>, dict |-> dict, cache |-> r.cache,
                 seg |-> suspended, frame |-> r.frame, tcall |-> r.tcall, scored |-> NoScored]
           ELSE IF r.status = "throw"
           THEN [status |-> "throw", value |-> r.value, dict |-> dict, cache |-> r.cache,
                 seg |-> NoSeg, frame |-> NoFrame, tcall |-> r.tcall, scored |-> NoScored]
           ELSE Cached(LAMBDA done :
                  [status |-> done.status, value |-> done.value, dict |-> done.dict,
                   cache |-> r.cache, seg |-> NoSeg, frame |-> NoFrame, tcall |-> r.tcall,
                   scored |-> done.scored])
      ELSE Local(LAMBDA done :
             [status |-> done.status, value |-> done.value, dict |-> done.dict,
              cache |-> cache, seg |-> NoSeg, frame |-> NoFrame, tcall |-> NoCall,
              scored |-> done.scored])))))

\* smartSegmentAndTranslate resumed with what its translate call came to
SegmentResume(dict, sg, r0) ==
  Bind(r0, LAMBDA r :
    IF r.status = "await"
    THEN [status |-> "await", value |-> <<>>, dict |-> dict, cache |-> r.cache,
          seg |-> sg, frame |-> r.frame, tcall |-> r.tcall, scored |-> NoScored]
    ELSE IF r.status = "throw"
    THEN [status |-> "throw", value |-> r.value, dict |-> dict, cache |-> r.cache,
          seg |-> NoSeg, frame |-> NoFrame, tcall |-> r.tcall, scored |-> NoScored]
    ELSE Bind(SegmentFinish(dict, FillSpans(sg.spans, sg.toTranslate, r.value),
                            Len(sg.syllables)),
              LAMBDA done :
                [status |-> done.status, value |-> done.value, dict |-> done.dict,
                 cache |-> r.cache, seg |-> NoSeg, frame |-> NoFrame, tcall |-> r.tcall,
                 scored |-> done.scored]))

\* Texts handed to smartSegmentAndTranslate and to handleTranslate
TextTokens == {"cai", "nay", "."}
ExampleText == <<"cai", "nay", "la", "cua", "ai">>
ExtraTexts == {ExampleText, <<"cai", "nay", "la">>, <<"Cai", "nay", "cai", "la">>,
               <<"la", "cua">>, <<" ">>}
InputTexts == SeqsUpTo(TextTokens, MaxTokens) \cup ExtraTexts

CallSegment ==
  /\ pc = "idle"
  /\ calls < MaxCalls
  /\ \E text \in InputTexts :
       \E r \in {SegmentBegin(dictionary, translationCache, text)} :
           IF r.status = "await"
           THEN Suspend("segment", r.frame, r.seg, NoReq, r.cache, r.tcall)
           ELSE Finish("segment", text, dictionary, r.status, r.value, r.cache, r.dict,
                       r.tcall, r.scored)
  /\ calls' = calls + 1
  /\ UNCHANGED <<keyVars, faults, greedyVars, solverVars, scriptVars>>

SegmentRespond ==
  /\ pc = "fetch"
  /\ op = "segment"
  /\ \E answer \in Answers :
       /\ AnswerAllowed(answer)
       /\ CountFault(answer)
       /\ \E r \in {SegmentResume(dictionary, seg,
                     TranslateResume(translationCache, frame, tcall, answer[1], answer[2]))} :
              IF r.status = "await"
              THEN Suspend("segment", r.frame, r.seg, NoReq, r.cache, r.tcall)
              ELSE Finish("segment", seg.text, seg.dict0, r.status, r.value, r.cache,
                          r.dict, r.tcall, r.scored)
  /\ UNCHANGED <<keyVars, calls, greedyVars, solverVars, scriptVars>>

InitSegment ==
  /\ InitKeys
  /\ InitServerVars
  /\ dictionary \in DictChoices
  /\ greedyIn = <<>>
  /\ greedyOut = <<>>
  /\ InitSolverVars
  /\ InitScripts

NextSegment == CallSegment \/ SegmentRespond

SpecSegment == InitSegment /\ [][NextSegment]_vars

\* ----------------------------------- steps 4-5 on every assignment of scores
MaxSyllables == 4   \* most syllables of a sequence handed to steps 4-5 on their own

\* the scores steps 1-3 can give a span: dictionary, detected compound or not
\* (server.ts:296, 352, 356); a single syllable: dictionary or baseline
\* (server.ts:296, 364)
ScoreChoice(len, tier) ==
  CASE tier = "dictionary" -> DictScore(len)
    [] tier = "compound" -> IF len = 1 THEN 1 ELSE CompoundScore(len)
    [] tier = "plain" -> IF len = 1 THEN 1 ELSE PlainScore(len)

ScoreAssignments(N) ==
  {[c \in CandSet(N) |-> [null |-> FALSE, score |-> ScoreChoice(c[2], tiers[c])]] :
     tiers \in [CandSet(N) -> {"dictionary", "compound", "plain"}]}

InitDP ==
  /\ GOOGLE_API_KEY = FALSE
  /\ GEMINI_API_KEY = FALSE
  /\ InitServerVars
  /\ dictionary = EmptyDict
  /\ greedyIn = <<>>
  /\ greedyOut = <<>>
  /\ InitScripts
  /\ \E N \in 1..MaxSyllables :
       \E spans \in ScoreAssignments(N) : scores = [N |-> N, spans |-> spans]
  /\ solved = NoSolution

\* steps 4-5 of smartSegmentAndTranslate (server.ts:369-394) on the scored spans
Solve ==
  /\ ~solved.done
  /\ \E r \in {SolveDP(scores.spans, scores.N)} :
       \E back \in {Backtrack(r.choice, scores.N, scores.N + 1)} :
         solved' = [done |-> TRUE, dp |-> r.dp, choice |-> r.choice,
                    ok |-> back.ok, segments |-> back.segments]
  /\ UNCHANGED <<keyVars, dictionary, serverVars, greedyVars, scores, scriptVars>>

NextDP == Solve

SpecDP == InitDP /\ [][NextDP]_vars

\* ---------------------------------------------------------- handleTranslate
Modes == {"vi-to-en", "en-to-vi"}

\* !text || text.trim().length === 0
IsBlank(text) == Trim(text) = <<>>

\* (the error masked as an empty success)
ErrorAsEmptySuccess(code, message) == [code |-> 200, body |-> [words |-> <<>>]]
\* Response.json({ error }, { status })
ErrorResponse(code, message) == [code |-> code, body |-> [error |-> message]]
\* Response.json(response) (server.ts:245-253)
OkResponse(text, sentenceTranslation, words) ==
  [code |-> 200,
   body |-> [sentence |-> [original |-> text, translation |-> sentenceTranslation],
             words |-> words]]

Respond(text, mode, dict0, response, cache1, dict1, tcall1, scored1) ==
  Finish("handle", [text |-> text, mode |-> mode], dict0, "response", response,
         cache1, dict1, tcall1, scored1)

\* handleTranslate from the return of the sentence translation (server.ts:236-253)
HandleAfterSentence(text, mode, dict0, results, cache1, tcall1) ==
  IF mode # "vi-to-en"
  THEN Respond(text, mode, dict0, OkResponse(text, results[1], <<>>), cache1, dictionary,
               tcall1, lastSpans)
  ELSE \E r \in {SegmentBegin(dictionary, cache1, text)} :
      LET tc == IF r.tcall = NoCall THEN tcall1 ELSE r.tcall
      IN  IF r.status = "await"
      THEN Suspend("handle", r.frame, r.seg,
                   [active |-> TRUE, text |-> text, mode |-> mode, stage |-> "words",
                    sentenceTranslation |-> results[1], dict0 |-> dict0],
                   r.cache, tc)
      ELSE IF r.status = "throw"
      THEN Respond(text, mode, dict0, ErrorResponse(500, r.value), r.cache, r.dict, tc, r.scored)
      ELSE Respond(text, mode, dict0, OkResponse(text, results[1], r.value), r.cache, r.dict,
                   tc, r.scored)

HandleTranslate ==
  /\ pc = "idle"
  /\ calls < MaxCalls
  /\ \E text \in InputTexts, mode \in Modes :
       LET source == IF mode = "vi-to-en" THEN "vi" ELSE "en"
           target == IF mode = "vi-to-en" THEN "en" ELSE "vi"
       IN  \E r \in {TranslateBegin(translationCache, <<text>>, source, target)} :
           IF IsBlank(text)
           THEN Respond(text, mode, dictionary, ErrorResponse(400, "No text provided"),
                        translationCache, dictionary, NoCall, lastSpans)
           ELSE IF r.status = "await"
           THEN Suspend("handle", r.frame, NoSeg,
                        [active |-> TRUE, text |-> text, mode |-> mode, stage |-> "sentence",
                         sentenceTranslation |-> Undefined, dict0 |-> dictionary],
                        r.cache, r.tcall)
           ELSE IF r.status = "throw"
           THEN Respond(text, mode, dictionary, ErrorResponse(500, r.value), r.cache,
                        dictionary, r.tcall, lastSpans)
           ELSE HandleAfterSentence(text, mode, dictionary, r.value, r.cache, r.tcall)
  /\ calls' = calls + 1
  /\ UNCHANGED <<keyVars, faults, greedyVars, solverVars, scriptVars>>

\* the backend answers while handleTranslate awaits the sentence translation
HandleSentenceRespond ==
  /\ pc = "fetch"
  /\ op = "handle"
  /\ req.stage = "sentence"
  /\ \E answer \in Answers :
       /\ AnswerAllowed(answer)
       /\ CountFault(answer)
       /\ \E r \in {TranslateResume(translationCache, frame, tcall, answer[1], answer[2])} :
              IF r.status = "await"
              THEN Suspend("handle", r.frame, NoSeg, req, r.cache, r.tcall)
              ELSE IF r.status = "throw"
              THEN Respond(req.text, req.mode, req.dict0, ErrorResponse(500, r.value),
                           r.cache, dictionary, r.tcall, lastSpans)
              ELSE HandleAfterSentence(req.text, req.mode, req.dict0, r.value, r.cache, r.tcall)
  /\ UNCHANGED <<keyVars, calls, greedyVars, solverVars, scriptVars>>

\* the backend answers while smartSegmentAndTranslate, called by handleTranslate,
\* awaits the n-gram translations
HandleWordsRespond ==
  /\ pc = "fetch"
  /\ op = "handle"
  /\ req.stage = "words"
  /\ \E answer \in Answers :
       /\ AnswerAllowed(answer)
       /\ CountFault(answer)
       /\ \E r \in {SegmentResume(dictionary, seg,
                     TranslateResume(translationCache, frame, tcall, answer[1], answer[2]))} :
              IF r.status = "await"
              THEN Suspend("handle", r.frame, r.seg, req, r.cache, r.tcall)
              ELSE IF r.status = "throw"
              THEN Respond(req.text, req.mode, req.dict0, ErrorResponse(500, r.value),
                           r.cache, r.dict, r.tcall, r.scored)
              ELSE Respond(req.text, req.mode, req.dict0,
                           OkResponse(req.text, req.sentenceTranslation, r.value),
                           r.cache, r.dict, r.tcall, r.scored)
  /\ UNCHANGED <<keyVars, calls, greedyVars, solverVars, scriptVars>>

Init ==
  /\ InitKeys
  /\ InitServerVars
  /\ dictionary \in DictChoices
  /\ greedyIn = <<>>
  /\ greedyOut = <<>>
  /\ InitSolverVars
  /\ InitScripts

Next == HandleTranslate \/ HandleSentenceRespond \/ HandleWordsRespond

Spec == Init /\ [][Next]_vars


\* ------------------------------------------- calls in flight at the same time
\* Several googleTranslate / smartSegmentAndTranslate calls suspended at their
\* fetches (server.ts:441-461 starts one per suggestion), all reading and
\* writing the one translationCache and the one dictionary.  inflight[id] holds
\* the locals of call id; a response resumes the call it belongs to.
ConcDicts == {EmptyDict, ExampleDict}
ConcSegmentTexts == {<<"la", "cua">>, <<"cai", "nay", "la">>, <<"nay", "la", "cua">>}

\* the pairs <<key, translation>> of the items the response answers
ObtainedFrom(f, ok, shape) ==
  LET size == IF f.fn = "gemini" THEN GEMINI_BATCH ELSE GOOGLE_BATCH
      batch == Slice(f.uncachedTexts, f.b, size)
      entries == BackendAnswer(batch, f.source, f.target, shape)
  IN  IF ~ok THEN {}
      ELSE {<<CacheKey(f.source, f.target, batch[entries[e].num]), entries[e].text>> :
              e \in {x \in DOMAIN entries : entries[x].num \in DOMAIN batch}}

ConcTranslate ==
  /\ calls < MaxCalls
  /\ \E texts \in SeqsUpTo(TranslateTexts, MaxTexts), dir \in Directions :
       \E r \in {TranslateBegin(translationCache, texts, dir[1], dir[2])} :
         /\ inflight' = Append(inflight,
              [op |-> "translate", pc |-> IF r.status = "await" THEN "fetch" ELSE "done",
               input |-> [texts |-> texts, source |-> dir[1], target |-> dir[2]],
               frame |-> r.frame, seg |-> NoSeg, tcall |-> r.tcall,
               status |-> r.status, value |-> r.value])
         /\ translationCache' = r.cache
  /\ calls' = calls + 1
  /\ UNCHANGED <<keyVars, dictionary, op, pc, frame, seg, req, outcome, prev, tcall, faults,
                 lastSpans, obtained, greedyVars, solverVars, scriptVars>>

ConcSegment ==
  /\ calls < MaxCalls
  /\ \E text \in ConcSegmentTexts :
       \E r \in {SegmentBegin(dictionary, translationCache, text)} :
         /\ inflight' = Append(inflight,
              [op |-> "segment", pc |-> IF r.status = "await" THEN "fetch" ELSE "done",
               input |-> text, frame |-> r.frame, seg |-> r.seg, tcall |-> r.tcall,
               status |-> r.status, value |-> r.value])
         /\ translationCache' = r.cache
         /\ dictionary' = r.dict
  /\ calls' = calls + 1
  /\ UNCHANGED <<keyVars, op, pc, frame, seg, req, outcome, prev, tcall, faults,
                 lastSpans, obtained, greedyVars, solverVars, scriptVars>>

\* the response to the fetch of call id arrives
ConcRespond ==
  \E id \in DOMAIN inflight :
    /\ inflight[id].pc = "fetch"
    /\ \E answer \in Answers :
         /\ AnswerAllowed(answer)
         /\ CountFault(answer)
         /\ obtained' = obtained \cup ObtainedFrom(inflight[id].frame, answer[1], answer[2])
         /\ \E t \in {TranslateResume(translationCache, inflight[id].frame, inflight[id].tcall,
                                      answer[1], answer[2])} :
              IF inflight[id].op = "translate"
              THEN /\ inflight' = [inflight EXCEPT ![id].pc = IF t.status = "await" THEN "fetch" ELSE "done",
                                                   ![id].frame = t.frame, ![id].tcall = t.tcall,
                                                   ![id].status = t.status, ![id].value = t.value]
                   /\ translationCache' = t.cache
                   /\ UNCHANGED dictionary
              ELSE \E r \in {SegmentResume(dictionary, inflight[id].seg, t)} :
                   /\ inflight' = [inflight EXCEPT ![id].pc = IF r.status = "await" THEN "fetch" ELSE "done",
                                                   ![id].frame = r.frame, ![id].tcall = r.tcall,
                                                   ![id].seg = r.seg,
                                                   ![id].status = r.status, ![id].value = r.value]
                   /\ translationCache' = r.cache
                   /\ dictionary' = r.dict
    /\ UNCHANGED <<keyVars, op, pc, frame, seg, req, outcome, prev, tcall, calls,
                   lastSpans, greedyVars, solverVars, scriptVars>>

InitConc ==
  /\ InitKeys
  /\ InitServerVars
  /\ dictionary \in ConcDicts
  /\ greedyIn = <<>>
  /\ greedyOut = <<>>
  /\ InitSolverVars
  /\ InitScripts

NextConc == ConcTranslate \/ ConcSegment \/ ConcRespond

SpecConc == InitConc /\ [][NextConc]_vars

\* ------------------------------------------- ProcessAudio: word frequencies
MaxDeltaWords == 2  \* most words in the newCounts of one merge
MaxCount == 2       \* largest count of a word in one newCounts
MaxMerges == 2      \* mergeWordFrequency calls in one run

FreqWords == {"la", "cua", "ai"}

\* A Map<string, number> is the sequence of its entries in insertion order.
MapHas(m, word) == \E k \in DOMAIN m : m[k].word = word
\* merged.get(word)
MapGet(m, word) ==
  IF MapHas(m, word) THEN (CHOOSE e \in {m[k] : k \in DOMAIN m} : e.word = word).count ELSE 0
\* merged.set(word, count): a present key keeps its place
MapSet(m, word, count) ==
  IF MapHas(m, word)
  THEN [k \in DOMAIN m |-> IF m[k].word = word THEN [word |-> word, count |-> count] ELSE m[k]]
  ELSE Append(m, [word |-> word, count |-> count])

\* (an absent word counted from one)
OrOne(m, word) == IF MapHas(m, word) /\ MapGet(m, word) # 0 THEN MapGet(m, word) ELSE 1
\* merged.get(word) || 0
OrZero(m, word) == IF MapHas(m, word) /\ MapGet(m, word) # 0 THEN MapGet(m, word) ELSE 0

\* (the new count replaces the old one)
KeepNew(old, count) == count
\* (merged.get(word) || 0) + count
AddCount(old, count) == old + count

\* part_000:425-427, entries k.. of the loaded list
RECURSIVE BuildLookup(_, _, _)
BuildLookup(m0, existing, k) ==
  Bind(m0, LAMBDA m :
    IF k > Len(existing) THEN m
    ELSE BuildLookup(MapSet(m, existing[k].word, existing[k].count), existing, k + 1))

\* part_000:430-432, entries k.. of newCounts
RECURSIVE MergeCounts(_, _, _)
MergeCounts(m0, newCounts, k) ==
  Bind(m0, LAMBDA m :
    IF k > Len(newCounts) THEN m
    ELSE MergeCounts(MapSet(m, newCounts[k].word,
                            AddCount(OrZero(m, newCounts[k].word), newCounts[k].count)),
                     newCounts, k + 1))

\* (a, b) => a.count - b.count
ByCountAsc(a, b) == a.count - b.count
\* (a, b) => b.count - a.count
ByCountDesc(a, b) == b.count - a.count

\* Array.prototype.sort, which is stable: the entries k.. of list are inserted
\* one by one behind the sorted entries that do not compare greater
RECURSIVE SortFrom(_, _, _)
SortFrom(sorted0, list, k) ==
  Bind(sorted0, LAMBDA sorted :
    IF k > Len(list) THEN sorted
    ELSE
      LET keep == {j \in DOMAIN sorted : ByCountDesc(sorted[j], list[k]) <= 0}
          pos == IF keep = {} THEN 0 ELSE SetMax(keep)
      IN  SortFrom(SubSeq(sorted, 1, pos) \o <<list[k]>> \o SubSeq(sorted, pos + 1, Len(sorted)),
                   list, k + 1))
Sort(list) == SortFrom(<<>>, list, 1)

\* existing = (await freqFile.exists()) ? await freqFile.json() : []
Existing(file) == IF file.exists THEN file.entries ELSE <<>>

\* the file mergeWordFrequency(newCounts) writes over the file it found
mergeWordFrequency(file, newCounts) ==
  [exists |-> TRUE,
   entries |-> Sort(MergeCounts(BuildLookup(<<>>, Existing(file), 1), newCounts, 1))]

\* The newCounts extractVocabulary can return: distinct words in order of
\* first occurrence, each counted at least once.
DeltaEntries == [word : FreqWords, count : 1..MaxCount]
ExampleDelta == <<[word |-> "la", count |-> 5]>>
Deltas ==
  {d \in SeqsUpTo(DeltaEntries, MaxDeltaWords) :
     \A j, k \in DOMAIN d : j # k => d[j].word # d[k].word} \cup {ExampleDelta}

\* The word-frequency.json of a first run: absent, or as the repository ships
\* it (sorted by count, one entry a word)
ExampleTable == <<[word |-> "la", count |-> 431]>>
TieTable == <<[word |-> "la", count |-> 431], [word |-> "ai", count |-> 2],
              [word |-> "cua", count |-> 2]>>
InitialTables == {ExampleTable, TieTable}

InitFreq ==
  /\ GOOGLE_API_KEY = FALSE
  /\ GEMINI_API_KEY = FALSE
  /\ InitServerVars
  /\ dictionary = EmptyDict
  /\ greedyIn = <<>>
  /\ greedyOut = <<>>
  /\ InitSolverVars
  /\ wordFrequencyFile \in {[exists |-> FALSE, entries |-> <<>>]} \cup
                           {[exists |-> TRUE, entries |-> t] : t \in InitialTables}
  /\ lastMerge = NoMerge
  /\ prevMerge = NoMerge
  /\ merges = 0
  /\ InitLiveVars
  /\ InitLinkVars

\* one run of ProcessAudio reaches `await mergeWordFrequency(wordCounts)`
MergeWordFrequency ==
  /\ merges < MaxMerges
  /\ \E newCounts \in Deltas :
       \E written \in {mergeWordFrequency(wordFrequencyFile, newCounts)} :
         /\ wordFrequencyFile' = written
         /\ lastMerge' = [done |-> TRUE, before |-> wordFrequencyFile,
                          newCounts |-> newCounts, after |-> written]
  /\ prevMerge' = lastMerge
  /\ merges' = merges + 1
  /\ UNCHANGED <<keyVars, dictionary, serverVars, greedyVars, solverVars, liveVars, linkVars>>

NextFreq == MergeWordFrequency

SpecFreq == InitFreq /\ [][NextFreq]_vars

\* ------------------------------------------ TranscribeLiveVi: cuts and exit
MaxUtterances == 2  \* final transcripts Deepgram delivers in one run

\* An utterance is named by its rank among the final transcripts.  A promise
\* is "pending" or "settled"; a processing promise carries the locals of its
\* async body and the await it stands at.
Running == tasks.shutdown # "exited"

PendingTranslations == {u \in DOMAIN tasks.translate : tasks.translate[u] = "pending"}
PendingProcessing == {n \in DOMAIN tasks.processing : tasks.processing[n].pc # "settled"}

\* handleCut (part_000:1275-1317) up to the first await of its processing
\* promise, the file.exists() of ensureMarkdownHeader
handleCut(st, tk) ==
  LET bufferSnapshot == st.transcriptBuffer
      entriesSnapshot == st.translatedEntries
      segNum == st.segmentNumber + 1
  IN  IF bufferSnapshot = <<>> /\ entriesSnapshot = <<>>
      THEN [state |-> st, tasks |-> tk]
      ELSE [state |-> [st EXCEPT !.transcriptBuffer = <<>>, !.translatedEntries = <<>>,
                                 !.segmentNumber = segNum,
                                 !.processingPromises = Append(@, segNum)],
            tasks |-> [tk EXCEPT !.processing =
                         Append(@, [pc |-> "exists", segNum |-> segNum,
                                    entries |-> entriesSnapshot, raw |-> bufferSnapshot,
                                    existing |-> NoFile])]]

\* shutdown (part_000:1357-1361): connection closed, sox killed, process.exit(0)
ShutdownExit(st, tk) == [state |-> st, tasks |-> [tk EXCEPT !.shutdown = "exited", !.waitFor = {}]]

\* shutdown from "Process remaining buffer" (part_000:1336-1346)
ShutdownCut(st, tk) ==
  \* await handleCut() resumes without leaving the microtask queue
  LET cut == IF st.transcriptBuffer # <<>> \/ st.translatedEntries # <<>>
             THEN handleCut(st, tk) ELSE [state |-> st, tasks |-> tk]
      waitFor == {cut.state.processingPromises[k] : k \in DOMAIN cut.state.processingPromises}
  IN  IF \E n \in waitFor : cut.tasks.processing[n].pc # "settled"
      THEN [state |-> cut.state,
            tasks |-> [cut.tasks EXCEPT !.shutdown = "segments", !.waitFor = waitFor]]
      ELSE ShutdownExit(cut.state, cut.tasks)

\* shutdown from its call (part_000:1323-1333)
shutdown(st, tk) ==
  LET st1 == [st EXCEPT !.isShuttingDown = TRUE]
      waitFor == {st.translationQueue[k] : k \in DOMAIN st.translationQueue}
  IN  IF st.isShuttingDown THEN [state |-> st, tasks |-> tk]
      ELSE IF \E u \in waitFor : tk.translate[u] = "pending"
      THEN [state |-> st1, tasks |-> [tk EXCEPT !.shutdown = "translations", !.waitFor = waitFor]]
      ELSE ShutdownCut(st1, tk)

\* A promise has settled: a shutdown() whose Promise.allSettled is thereby
\* fulfilled goes on in the same turn of the event loop.
Settled(st, tk) ==
  IF tk.shutdown = "translations" /\ \A u \in tk.waitFor : tk.translate[u] = "settled"
  THEN ShutdownCut(st, tk)
  ELSE IF tk.shutdown = "segments" /\ \A n \in tk.waitFor : tk.processing[n].pc = "settled"
  THEN ShutdownExit(st, tk)
  ELSE [state |-> st, tasks |-> tk]

\* what the cut and shutdown handlers leave alone: the server, the frequency
\* table and the Deepgram connection
serverSide == <<keyVars, dictionary, serverVars, greedyVars, solverVars, freqVars, linkVars>>

\* Deepgram delivers a final transcript (part_000:1468-1503)
Transcript ==
  /\ Running
  /\ Len(tasks.translate) < MaxUtterances
  /\ LET viText == Len(tasks.translate) + 1
     IN  /\ state' = [state EXCEPT !.transcriptBuffer = Append(@, viText),
                                   !.translationQueue = Append(@, viText)]
         /\ tasks' = [tasks EXCEPT !.translate = Append(@, "pending")]
  /\ UNCHANGED <<markdownFile, atTrigger, serverSide>>

\* translateViToEn answers (it never rejects): the entry is pushed
TranslationDone ==
  /\ Running
  /\ \E u \in PendingTranslations :
       \E r \in {Settled([state EXCEPT !.translatedEntries = Append(@, u)],
                         [tasks EXCEPT !.translate[u] = "settled"])} :
         /\ state' = r.state
         /\ tasks' = r.tasks
  /\ UNCHANGED <<markdownFile, atTrigger, serverSide>>

\* process.on("SIGUSR1", () => { handleCut(); })
SigUsr1 ==
  /\ Running
  /\ \E r \in {handleCut(state, tasks)} :
       /\ state' = r.state
       /\ tasks' = r.tasks
  /\ UNCHANGED <<markdownFile, atTrigger, serverSide>>

\* SIGINT, SIGTERM, the exit or error of sox, the reconnects exhausted
ShutdownCauses == {"SIGINT", "SIGTERM", "sox", "reconnect"}

ShutdownTrigger ==
  /\ Running
  /\ \E cause \in ShutdownCauses :
       /\ \E r \in {shutdown(state, tasks)} :
            /\ state' = r.state
            /\ tasks' = r.tasks
       /\ atTrigger' = IF state.isShuttingDown THEN atTrigger
                       ELSE [triggered |-> TRUE,
                             transcriptBuffer |-> state.transcriptBuffer,
                             translatedEntries |-> state.translatedEntries,
                             inFlight |-> PendingTranslations]
  /\ UNCHANGED <<markdownFile, serverSide>>

\* ensureMarkdownHeader: file.exists() answers (part_000:1202-1203); a missing
\* file makes it start the write of the header, else appendSegment starts to
\* read the file
HeaderExists ==
  /\ Running
  /\ \E n \in DOMAIN tasks.processing :
       /\ tasks.processing[n].pc = "exists"
       /\ tasks' = [tasks EXCEPT !.processing[n].pc =
                      IF markdownFile.exists THEN "read" ELSE "writeHeader"]
  /\ UNCHANGED <<state, markdownFile, atTrigger, serverSide>>

\* ensureMarkdownHeader: Bun.write(state.outputFile, header) is done
HeaderWritten ==
  /\ Running
  /\ \E n \in DOMAIN tasks.processing :
       /\ tasks.processing[n].pc = "writeHeader"
       /\ markdownFile' = [exists |-> TRUE, headers |-> 1, blocks |-> <<>>]
       /\ tasks' = [tasks EXCEPT !.processing[n].pc = "read"]
  /\ UNCHANGED <<state, atTrigger, serverSide>>

\* appendSegment: Bun.file(state.outputFile).text() answers (part_000:1246)
SegmentRead ==
  /\ Running
  /\ \E n \in DOMAIN tasks.processing :
       /\ tasks.processing[n].pc = "read"
       /\ tasks' = [tasks EXCEPT !.processing[n].pc = "write",
                                 !.processing[n].existing = markdownFile]
  /\ UNCHANGED <<state, markdownFile, atTrigger, serverSide>>

\* appendSegment: Bun.write(state.outputFile, existing + block) is done
\* (part_000:1247); a segment with raw text goes on to extractVocab
SegmentWritten ==
  /\ Running
  /\ \E n \in DOMAIN tasks.processing :
       LET p == tasks.processing[n]
           block == [segNum |-> p.segNum, entries |-> p.entries, raw |-> p.raw]
       IN  /\ p.pc = "write"
           /\ markdownFile' = [p.existing EXCEPT !.blocks = Append(@, block)]
           /\ \E r \in {Settled(state, [tasks EXCEPT !.processing[n].pc =
                                          IF p.raw # <<>> THEN "vocab" ELSE "settled"])} :
                /\ state' = r.state
                /\ tasks' = r.tasks
  /\ UNCHANGED <<atTrigger, serverSide>>

\* extractVocab and appendVocabToCheatSheet are through (part_000:1305-1311)
VocabDone ==
  /\ Running
  /\ \E n \in DOMAIN tasks.processing :
       /\ tasks.processing[n].pc = "vocab"
       /\ \E r \in {Settled(state, [tasks EXCEPT !.processing[n].pc = "settled"])} :
            /\ state' = r.state
            /\ tasks' = r.tasks
  /\ UNCHANGED <<markdownFile, atTrigger, serverSide>>

InitLive ==
  /\ GOOGLE_API_KEY = FALSE
  /\ GEMINI_API_KEY = FALSE
  /\ InitServerVars
  /\ dictionary = EmptyDict
  /\ greedyIn = <<>>
  /\ greedyOut = <<>>
  /\ InitSolverVars
  /\ InitScripts

NextLive ==
  \/ Transcript
  \/ TranslationDone
  \/ SigUsr1
  \/ ShutdownTrigger
  \/ HeaderExists
  \/ HeaderWritten
  \/ SegmentRead
  \/ SegmentWritten
  \/ VocabDone

SpecLive == InitLive /\ [][NextLive]_vars

\* ------------------------------------ TranscribeLiveVi: the Deepgram connection
MaxConnections == 3   \* Deepgram connections created in one run
MaxThrows == 1        \* createDeepgramConnection calls that throw in one run

MAX_RECONNECT_ATTEMPTS == 3
RECONNECT_BASE_DELAY_MS == 1000

\* (a delay that grows by the base delay per attempt)
LinearDelay(attempts) == RECONNECT_BASE_DELAY_MS * attempts
\* RECONNECT_BASE_DELAY_MS * Math.pow(2, state.reconnectAttempts - 1)
ReconnectDelay(attempts) == RECONNECT_BASE_DELAY_MS * 2^(attempts - 1)

\* The state the connection handlers work on, as one record
World == [link |-> link, connections |-> connections, timers |-> timers,
          soxListeners |-> soxListeners, audit |-> audit]

\* attemptReconnect (part_000:1534-1557) up to its setTimeout; shutdown() sets
\* isShuttingDown at once (part_000:1324-1325).  cause names the connection
\* whose Error or Close event made the call (0: the catch of the timer body).
attemptReconnect(w, cause) ==
  LET attempts == w.link.reconnectAttempts + 1
      counted == IF cause = 0 THEN w.connections
                 ELSE [w.connections EXCEPT ![cause].attempts = @ + 1]
  IN  IF w.link.isShuttingDown THEN w
      ELSE IF attempts > MAX_RECONNECT_ATTEMPTS
      THEN [w EXCEPT !.link.reconnectAttempts = attempts, !.link.isShuttingDown = TRUE,
                     !.connections = counted]
      ELSE [w EXCEPT !.link.reconnectAttempts = attempts,
                     !.connections = counted,
                     !.timers = Append(@, [delay |-> ReconnectDelay(attempts), pending |-> TRUE,
                                           cause |-> cause]),
                     !.audit.sinceOpen = Append(@, ReconnectDelay(attempts))]

\* pipeAudioToDeepgram (part_000:1563-1578): one more "data" listener, unless
\* there is no connection (sox is running until shutdown ends)
pipeAudioToDeepgram(w) ==
  IF w.link.deepgramConnection = 0 THEN w ELSE [w EXCEPT !.soxListeners = @ + 1]

\* the primed connection variables take the values of w
Becomes(w) ==
  /\ link' = w.link
  /\ connections' = w.connections
  /\ timers' = w.timers
  /\ soxListeners' = w.soxListeners
  /\ audit' = w.audit

besideLink == <<keyVars, dictionary, serverVars, greedyVars, solverVars, freqVars, liveVars>>

\* LiveTranscriptionEvents.Open on connection c (part_000:1455-1462), and on
\* the first connection the handler main added (part_000:1608-1610)
Open ==
  /\ ~link.exited
  /\ \E c \in DOMAIN connections :
       /\ connections[c].status = "connecting"
       /\ \E w \in {[World EXCEPT !.connections[c].status = "open",
                                  !.link.reconnectAttempts = 0,
                                  !.audit.sinceOpen = <<>>]} :
            Becomes(IF connections[c].pipesOnOpen THEN pipeAudioToDeepgram(w) ELSE w)
  /\ UNCHANGED besideLink

\* connection c fails: the SDK will emit Error, Close or both for it
FailureEvents == {{"Error"}, {"Close"}, {"Error", "Close"}}

ConnectionFails ==
  /\ ~link.exited
  /\ \E c \in DOMAIN connections, events \in FailureEvents :
       /\ connections[c].status \in {"connecting", "open"}
       /\ connections' = [connections EXCEPT ![c].status = "down", ![c].events = events]
  /\ UNCHANGED <<link, timers, soxListeners, audit, besideLink>>

\* the Error or Close handler of connection c runs (part_000:1515-1525)
ErrorOrClose ==
  /\ ~link.exited
  /\ \E c \in DOMAIN connections :
       \E e \in connections[c].events :
         \E w \in {[World EXCEPT !.connections[c].events = @ \ {e}]} :
           Becomes(IF w.link.isShuttingDown THEN w ELSE attemptReconnect(w, c))
  /\ UNCHANGED besideLink

\* the callback of a reconnect timer runs (part_000:1547-1556);
\* createDeepgramConnection returns a new connection or throws
TimerFires ==
  /\ ~link.exited
  /\ \E t \in DOMAIN timers :
       /\ timers[t].pending
       /\ \E w \in {[World EXCEPT !.timers[t].pending = FALSE]} :
            IF w.link.isShuttingDown THEN Becomes(w)
            ELSE \/ /\ Len(connections) < MaxConnections
                    /\ Becomes(pipeAudioToDeepgram(
                         [w EXCEPT !.connections =
                                     Append(@, [status |-> "connecting", events |-> {},
                                                pipesOnOpen |-> FALSE,
                                                cause |-> timers[t].cause, attempts |-> 0]),
                                   !.link.deepgramConnection = Len(connections) + 1]))
                 \/ /\ audit.throws < MaxThrows
                    /\ Becomes(attemptReconnect([w EXCEPT !.audit.throws = @ + 1], 0))
  /\ UNCHANGED besideLink

\* sox emits one audio chunk: every "data" listener runs (part_000:1566-1577)
AudioChunk ==
  /\ ~link.exited
  /\ LET current == link.deepgramConnection
         sends == IF link.isShuttingDown THEN 0
                  ELSE IF current # 0 /\ connections[current].status = "open"
                  THEN soxListeners ELSE 0
     IN  audit' = [audit EXCEPT !.lastSends = sends]
  /\ UNCHANGED <<link, connections, timers, soxListeners, besideLink>>

\* SIGINT, SIGTERM or the end of sox calls shutdown() (part_000:1323-1325)
ShutdownCalled ==
  /\ ~link.exited
  /\ ~link.isShuttingDown
  /\ link' = [link EXCEPT !.isShuttingDown = TRUE]
  /\ UNCHANGED <<connections, timers, soxListeners, audit, besideLink>>

\* shutdown() comes to its end (part_000:1348-1361)
Exit ==
  /\ ~link.exited
  /\ link.isShuttingDown
  /\ link' = [link EXCEPT !.exited = TRUE, !.deepgramConnection = 0]
  /\ UNCHANGED <<connections, timers, soxListeners, audit, besideLink>>

InitLink == InitLive

NextLink ==
  \/ Open
  \/ ConnectionFails
  \/ ErrorOrClose
  \/ TimerFires
  \/ AudioChunk
  \/ ShutdownCalled
  \/ Exit

SpecLink == InitLink /\ [][NextLink]_vars

\* ------------------------------------------------- translate call contract
\* C7: every translate call that returns gives a list as long as its input
\* whose every position holds a defined translation string.
C7_OracleContract ==
  tcall.status = "return" =>
    /\ Len(tcall.results) = Len(tcall.texts)
    /\ \A k \in DOMAIN tcall.texts : tcall.results[k].def

\* C8: a text that has a cache entry under (source, target, text) when the
\* call starts is in no batch the call sends to the backend.
C8_CachedNeverSent ==
  tcall.status # "none" =>
    \A b \in DOMAIN tcall.sent : \A j \in DOMAIN tcall.sent[b] :
      CacheKey(tcall.source, tcall.target, tcall.sent[b][j]) \notin DOMAIN tcall.cacheAtStart

\* C9: when a translate call has returned, the cache holds for every input
\* text an entry equal to the translation returned for it.
C9_CacheWrittenBeforeReturn ==
  (pc = "idle" /\ tcall.status = "return") =>
    \A k \in DOMAIN tcall.texts :
      LET key == CacheKey(tcall.source, tcall.target, tcall.texts[k])
      IN  key \in DOMAIN translationCache /\ Str(translationCache[key]) = tcall.results[k]

\* ------------------------------------------------------------ segmentation
Words(value) == [k \in DOMAIN value |-> value[k].word]
Returned(opName) == outcome.op = opName /\ outcome.status = "return"

\* C6: with the lexicon holding only "cai nay" -> "this" and no API key,
\* smartSegmentAndTranslate("cai nay la cua ai") returns the four spans
\* "cai nay", "la", "cua", "ai" in this order.
C6_EndToEndExample ==
  (Returned("segment") /\ outcome.input = ExampleText /\ outcome.dict0 = ExampleDict /\ ~API_KEY)
    => Words(outcome.value) = <<<<"cai", "nay">>, <<"la">>, <<"cua">>, <<"ai">>>>

Syllables(text) == SelectSeq(text, LAMBDA t : t \in SyllableTokens)

\* C1: a returned segmentation of N >= 1 syllables partitions [0, N): the
\* spans follow one another without gap or overlap from 0 to N, every length
\* is in 1..4, and the words joined give the syllable sequence back.
C1_ExactCover ==
  (Returned("segment") /\ Syllables(outcome.input) # <<>>) =>
    LET v == outcome.value
        N == Len(Syllables(outcome.input))
    IN  /\ v # <<>>
        /\ v[1].start = 0
        /\ v[Len(v)].start + v[Len(v)].len = N
        /\ \A k \in DOMAIN v : v[k].len \in 1..4
        /\ \A k \in 1..(Len(v) - 1) : v[k + 1].start = v[k].start + v[k].len
        /\ \A k \in DOMAIN v : Len(v[k].word) = v[k].len
        /\ Concat(Words(v)) = Syllables(outcome.input)

C1_Witness ==
  /\ Returned("segment")
  /\ API_KEY
  /\ Len(outcome.value) >= 2
  /\ \E k \in DOMAIN outcome.value : outcome.value[k].len >= 2
  /\ Len(Syllables(outcome.input)) >= 4

\* Two smartSegmentAndTranslate calls in a row on the same input, both
\* answered by the backend's fixed translations (no faulty response)
RepeatedCall ==
  /\ Returned("segment")
  /\ prev.op = "segment"
  /\ prev.status = "return"
  /\ prev.input = outcome.input
  /\ faults = 0

\* C2 as claimed: a repeated call returns the segmentation of the first call
\* (boundaries, scores, origin flags).
C2_RepeatIdentical == RepeatedCall => outcome.value = prev.value

\* C2 amended: a repeated call that starts from the lexicon state the first
\* call started from returns the identical segmentation.
C2_RepeatIdenticalSameLexicon ==
  (RepeatedCall /\ outcome.dict0 = prev.dict0) => outcome.value = prev.value

\* the second call is served from the cache, and a compound is involved
C2_Witness ==
  /\ RepeatedCall
  /\ outcome.dict0 = prev.dict0
  /\ tcall.status = "return"
  /\ tcall.sent = <<>>
  /\ Len(Syllables(outcome.input)) >= 2
  /\ outcome.value = prev.value

\* the occurrences (start, length) of multi-syllable lexicon phrases in the
\* input of the last call, for a lexicon state
Occurrences(dict) ==
  LET syllables == Syllables(outcome.input)
      N == Len(syllables)
  IN  {c \in (0..N) \X (2..4) :
         /\ c[1] + c[2] <= N
         /\ Truthy(DictEntry(dict, SubSeq(syllables, c[1] + 1, c[1] + c[2])))}

CoveredAsOneSpan(c) ==
  \E k \in DOMAIN outcome.value : outcome.value[k].start = c[1] /\ outcome.value[k].len = c[2]

Overlap(c, d) == c # d /\ c[1] < d[1] + d[2] /\ d[1] < c[1] + c[2]

\* C3 as claimed: every occurrence of a 2-4 syllable lexicon phrase is one
\* span of the returned segmentation.
C3_LexiconPrecedence ==
  Returned("segment") => \A c \in Occurrences(outcome.dict0) : CoveredAsOneSpan(c)

\* C3 amended: an occurrence of a 2-4 syllable lexicon phrase is one span of
\* the returned segmentation when it overlaps no other occurrence of a
\* multi-syllable phrase that is in the lexicon when the call returns (there
\* before the call, or registered by it as a detected compound).
C3_LexiconPrecedenceNoOverlap ==
  Returned("segment") =>
    \A c \in Occurrences(outcome.dict0) :
      (\A d \in Occurrences(outcome.dict1) : ~Overlap(c, d)) => CoveredAsOneSpan(c)

C3_Witness ==
  /\ Returned("segment")
  /\ Len(outcome.value) >= 2
  /\ \E c \in Occurrences(outcome.dict0) :
       /\ \A d \in Occurrences(outcome.dict1) : ~Overlap(c, d)
       /\ CoveredAsOneSpan(c)
  /\ \E c \in Occurrences(outcome.dict1) : c \notin Occurrences(outcome.dict0)

\* C5: when a backend response lacks entries, every text whose entry is
\* missing is returned as its own source text, and in the segmentation output
\* the flag of such a span tells it from the spans the backend translated.
C5_FallbackVisible ==
  (Returned("segment") /\ tcall.status = "return" /\ tcall.missing # {}) =>
    /\ \A j \in tcall.missing : tcall.results[j] = Str(tcall.texts[j])
    /\ \A k, m \in DOMAIN outcome.value :
         (outcome.value[k].query \in tcall.missing /\ outcome.value[m].query # 0
            /\ outcome.value[m].query \notin tcall.missing)
           => outcome.value[k].fromDictionary # outcome.value[m].fromDictionary

\* C10: a non-OK answer of the backend makes the translate call throw without
\* a result list, and handleTranslate answers it with status 500 and an error
\* body.
C10_OracleFailureExplicit ==
  (tcall.status # "none" /\ tcall.httpError) =>
    /\ tcall.status = "throw"
    /\ tcall.results = <<>>
    /\ (outcome.op = "handle" /\ pc = "idle") =>
         /\ outcome.value.code = 500
         /\ DOMAIN outcome.value.body = {"error"}

\* the failure hit the n-gram translations, after the sentence was translated
C10_Witness ==
  /\ pc = "idle"
  /\ outcome.op = "handle"
  /\ tcall.status = "throw"
  /\ tcall.httpError
  /\ Len(tcall.texts) >= 2
  /\ outcome.value.code = 500

\* ------------------------------------------------------ greedy consistency
\* C4 as claimed: the greedy segmenter returns exactly the lexicon phrases the
\* text was concatenated from.
C4_GreedyReturnsPhrases == greedyOut = greedyIn

\* no multi-syllable lexicon phrase longer than the k-th phrase matches the
\* text at the start of the k-th phrase, and a multi-syllable k-th phrase has a
\* non-empty translation
NoLongerMatchAt(k) ==
  LET text == Concat(greedyIn)
      first == Len(Concat(SubSeq(greedyIn, 1, k - 1))) + 1
      n == Len(greedyIn[k])
  IN  /\ \A len \in 2..4 :
           (len > n /\ first + len - 1 <= Len(text))
             => ~Truthy(DictEntry(dictionary, SubSeq(text, first, first + len - 1)))
      /\ n >= 2 => Truthy(DictEntry(dictionary, greedyIn[k]))

\* C4 amended: the greedy segmenter returns exactly the phrases when, at the
\* start of each phrase, no longer lexicon phrase of 2-4 syllables matches and
\* every multi-syllable phrase has a non-empty translation.
C4_GreedyReturnsPhrasesNoLongerMatch ==
  (\A k \in DOMAIN greedyIn : NoLongerMatchAt(k)) => greedyOut = greedyIn

C4_Witness ==
  /\ Len(greedyIn) >= 2
  /\ \E k \in DOMAIN greedyIn : Len(greedyIn[k]) = 3
  /\ \E k \in DOMAIN greedyIn : Len(greedyIn[k]) = 1
  /\ \A k \in DOMAIN greedyIn : NoLongerMatchAt(k)
  /\ greedyOut = greedyIn

\* ------------------------------------------------------- request validation
Handled == pc = "idle" /\ outcome.op = "handle"

\* C11: a request whose text normalizes to no syllable (empty, whitespace
\* only, punctuation only) is answered with the validation error, and no
\* translate call was made for it; it is never answered 200 with no words.
C11_EmptyInputRejected ==
  (Handled /\ Normalize(outcome.input.text) = <<>>) =>
    /\ outcome.value.code = 400
    /\ tcall.status = "none"

\* C12: without any API key a vi-to-en request with a non-blank text is
\* answered 200 with a word breakdown that covers the text, every span out of
\* the dictionary carrying its own text as translation.
C12_DictionaryOnlyDegradation ==
  (Handled /\ ~API_KEY /\ outcome.input.mode = "vi-to-en" /\ ~IsBlank(outcome.input.text)) =>
    /\ outcome.value.code = 200
    /\ "words" \in DOMAIN outcome.value.body
    /\ Concat(Words(outcome.value.body.words)) = Normalize(outcome.input.text)
    /\ \A k \in DOMAIN outcome.value.body.words :
         LET w == outcome.value.body.words[k]
         IN  ~w.fromDictionary => w.translation = Str(w.word)

\* ---------------------------------------------------------- frequency merge
RECURSIVE CountOf(_, _)
CountOf(list, word) ==
  IF list = <<>> THEN 0
  ELSE (IF Head(list).word = word THEN Head(list).count ELSE 0) + CountOf(Tail(list), word)

WordsOf(list) == {list[k].word : k \in DOMAIN list}

\* C13: the table written by a merge holds, for every word, the count of the
\* loaded table plus the count of newCounts (0 where absent), each word once
\* and no other word; merging the same newCounts twice adds its counts twice.
C13_MergeAdditive ==
  lastMerge.done =>
    LET T == Existing(lastMerge.before)
        d == lastMerge.newCounts
        W == wordFrequencyFile.entries
    IN  /\ wordFrequencyFile.exists
        /\ \A w \in FreqWords : CountOf(W, w) = CountOf(T, w) + CountOf(d, w)
        /\ WordsOf(W) = WordsOf(T) \cup WordsOf(d)
        /\ \A j, k \in DOMAIN W : j # k => W[j].word # W[k].word
        /\ (prevMerge.done /\ prevMerge.newCounts = d) =>
             \A w \in FreqWords :
               CountOf(W, w) = CountOf(Existing(prevMerge.before), w) + 2 * CountOf(d, w)

\* [{la:431}] merged with {la:5} twice: [{la:441}]
C13_Witness ==
  /\ lastMerge.done
  /\ prevMerge.done
  /\ prevMerge.before.entries = ExampleTable
  /\ prevMerge.newCounts = ExampleDelta
  /\ prevMerge.after.entries = <<[word |-> "la", count |-> 436]>>
  /\ lastMerge.newCounts = ExampleDelta
  /\ wordFrequencyFile.entries = <<[word |-> "la", count |-> 441]>>

\* C14: a merge of an empty newCounts writes the list it loaded: same entries,
\* same counts, same order.
C14_EmptyDeltaUnchanged ==
  (lastMerge.done /\ lastMerge.newCounts = <<>>) =>
    /\ wordFrequencyFile.exists
    /\ wordFrequencyFile.entries = Existing(lastMerge.before)

\* the loaded table was written by an earlier merge and holds equal counts
C14_Witness ==
  /\ lastMerge.done
  /\ lastMerge.newCounts = <<>>
  /\ prevMerge.done
  /\ prevMerge.newCounts # <<>>
  /\ Len(lastMerge.before.entries) >= 3
  /\ \E j, k \in DOMAIN lastMerge.before.entries :
       j # k /\ lastMerge.before.entries[j].count = lastMerge.before.entries[k].count
  /\ wordFrequencyFile.entries = lastMerge.before.entries

\* the table two merges in a row would have written in the other order
SwappedOrder ==
  mergeWordFrequency(mergeWordFrequency(prevMerge.before, lastMerge.newCounts),
                     prevMerge.newCounts)

TwoMerges == lastMerge.done /\ prevMerge.done

\* C15 as claimed: merging A then B writes the same ordered list as merging B
\* then A.
C15_MergeCommutative == TwoMerges => wordFrequencyFile = SwappedOrder

SortedByCount(list) == \A j, k \in DOMAIN list : j < k => list[j].count >= list[k].count

\* C15 amended: merging A then B writes the same words with the same counts as
\* merging B then A, both lists in descending order of count (words of equal
\* count may stand in a different order).
C15_MergeCommutativeCounts ==
  TwoMerges =>
    /\ \A w \in FreqWords :
         CountOf(wordFrequencyFile.entries, w) = CountOf(SwappedOrder.entries, w)
    /\ WordsOf(wordFrequencyFile.entries) = WordsOf(SwappedOrder.entries)
    /\ Len(wordFrequencyFile.entries) = Len(SwappedOrder.entries)
    /\ SortedByCount(wordFrequencyFile.entries)
    /\ SortedByCount(SwappedOrder.entries)

\* two different merges that share a word; the two orders differ in the order
\* of the list only
C15_Witness ==
  /\ TwoMerges
  /\ prevMerge.newCounts # lastMerge.newCounts
  /\ WordsOf(prevMerge.newCounts) \cap WordsOf(lastMerge.newCounts) # {}
  /\ WordsOf(prevMerge.newCounts) # WordsOf(lastMerge.newCounts)
  /\ wordFrequencyFile # SwappedOrder
  /\ \A w \in FreqWords :
       CountOf(wordFrequencyFile.entries, w) = CountOf(SwappedOrder.entries, w)

\* ------------------------------------------------------- cuts and shutdown
InRaw(u) == \E b \in DOMAIN markdownFile.blocks :
              \E k \in DOMAIN markdownFile.blocks[b].raw : markdownFile.blocks[b].raw[k] = u
InEntries(u) == \E b \in DOMAIN markdownFile.blocks :
                  \E k \in DOMAIN markdownFile.blocks[b].entries :
                    markdownFile.blocks[b].entries[k] = u

\* C16: when the process exits after a shutdown, every transcript that was in
\* transcriptBuffer at the trigger is in the raw text of a segment of the
\* output file, and every translation that was complete or in flight at the
\* trigger is an entry of a segment of the output file.
C16_GracefulExit ==
  (tasks.shutdown = "exited" /\ atTrigger.triggered) =>
    /\ \A k \in DOMAIN atTrigger.transcriptBuffer : InRaw(atTrigger.transcriptBuffer[k])
    /\ \A k \in DOMAIN atTrigger.translatedEntries : InEntries(atTrigger.translatedEntries[k])
    /\ \A u \in atTrigger.inFlight : InEntries(u)

\* C17: once every processing promise has settled, the output file holds
\* exactly one block for each segment number 1..segmentNumber and, if any
\* segment was cut, the header exactly once.
C17_EveryCutSaved ==
  (state.segmentNumber >= 1 /\ PendingProcessing = {}) =>
    /\ markdownFile.exists
    /\ markdownFile.headers = 1
    /\ \A n \in 1..state.segmentNumber :
         Cardinality({b \in DOMAIN markdownFile.blocks :
                        markdownFile.blocks[b].segNum = n}) = 1

\* ------------------------------------------------- compound classification
\* the first listed sense of a translation, lowercased
LowerFirstSense(tr) ==
  LET upTo == IF \E k \in DOMAIN tr : tr[k] = ","
              THEN SetMin({k \in DOMAIN tr : tr[k] = ","}) - 1 ELSE Len(tr)
  IN  toLowerCase(Trim(SubSeq(tr, 1, upTo)))

\* the first senses of the single syllables of span c, in forward order
SinglesOf(c) == [m \in 1..c[2] |-> LowerFirstSense(lastSpans[<<c[1] + m - 1, 1>>].translation.s)]

\* tr is the given senses joined by single spaces
JoinedIs(tr, senses) == (\A m \in DOMAIN senses : senses[m] # <<>>) /\ tr = Concat(senses)

ForwardMatch(c) == JoinedIs(Trim(toLowerCase(lastSpans[c].translation.s)), SinglesOf(c))
ReverseMatch(c) ==
  JoinedIs(Trim(toLowerCase(lastSpans[c].translation.s)),
           [m \in 1..c[2] |-> SinglesOf(c)[c[2] + 1 - m]])

\* the conditions of the claim on span c
LooksCompound(c) ==
  LET tr == Trim(toLowerCase(lastSpans[c].translation.s))
  IN  /\ tr # <<>>
      /\ ~ForwardMatch(c)
      /\ ~ReverseMatch(c)
      /\ Cardinality({k \in DOMAIN tr : tr[k] # ","}) <= 3

\* the multi-syllable spans of the last call that were not lexicon spans
OracleSpans == {c \in DOMAIN lastSpans : c[2] >= 2 /\ ~lastSpans[c].fromDictionary}

\* C18: in a call that returns, a multi-syllable span that is not a lexicon
\* span has score 8 * length and is written into the lexicon under its
\* lowercased text exactly when its translation, lowercased and trimmed, is
\* non-empty, is neither the forward nor the reverse join of the first senses
\* of its syllables and has at most 3 words; otherwise it has score 1 * length
\* and is not written.  The lexicon changes in no other way.
C18_CompoundClassification ==
  Returned("segment") =>
    /\ \A c \in OracleSpans :
         IF LooksCompound(c)
         THEN /\ lastSpans[c].score = 8 * c[2]
              /\ lastSpans[c].registered
              /\ toLowerCase(lastSpans[c].text) \in DOMAIN outcome.dict1
         ELSE /\ lastSpans[c].score = c[2]
              /\ ~lastSpans[c].registered
    /\ \A key \in DOMAIN outcome.dict1 :
         \/ key \in DOMAIN outcome.dict0 /\ outcome.dict1[key] = outcome.dict0[key]
         \/ \E c \in OracleSpans :
              /\ lastSpans[c].registered
              /\ toLowerCase(lastSpans[c].text) = key
              /\ outcome.dict1[key] = lastSpans[c].translation.s
    /\ DOMAIN outcome.dict0 \subseteq DOMAIN outcome.dict1

\* one call with a detected compound, a reverse-order match, a forward match,
\* an empty translation and a translation of four words
C18_Witness ==
  /\ Returned("segment")
  /\ API_KEY
  /\ \E c \in OracleSpans : LooksCompound(c) /\ lastSpans[c].score = 8 * c[2]
  /\ \E c \in OracleSpans : ReverseMatch(c) /\ ~ForwardMatch(c) /\ lastSpans[c].score = c[2]
  /\ \E c \in OracleSpans : ForwardMatch(c) /\ lastSpans[c].score = c[2]
  /\ \E c \in OracleSpans : lastSpans[c].translation.s = <<>> /\ lastSpans[c].score = c[2]
  /\ \E c \in OracleSpans :
       Len(lastSpans[c].translation.s) = 4 /\ ~ForwardMatch(c) /\ lastSpans[c].score = c[2]

\* ------------------------------------------------------------ the DP solver
\* the ways to cut [0, j) into spans of 1 to 4 syllables: the span lengths
Partitions(j) ==
  {lens \in SeqsUpTo(1..4, j) : Len(Concat([k \in DOMAIN lens |-> [m \in 1..lens[k] |-> k]])) = j}

\* the start of the k-th span of a partition
StartOf(lens, k) == Len(Concat([m \in 1..(k - 1) |-> [n \in 1..lens[m] |-> m]]))

RECURSIVE SumScores(_, _)
SumScores(lens, k) ==
  IF k > Len(lens) THEN 0
  ELSE scores.spans[<<StartOf(lens, k), lens[k]>>].score + SumScores(lens, k + 1)

MaxTotal(j) == SetMax({SumScores(lens, 1) : lens \in Partitions(j)})

RECURSIVE SumSegments(_)
SumSegments(segments) ==
  IF segments = <<>> THEN 0
  ELSE scores.spans[<<Head(segments).start, Head(segments).len>>].score
         + SumSegments(Tail(segments))

\* C19: for every assignment of span scores, dp[j] is the largest total score
\* of a partition of [0, j) into spans of 1 to 4 syllables, for every j, and
\* the returned spans are a partition of [0, N) whose scores sum to dp[N].
C19_DPOptimal ==
  solved.done =>
    /\ \A j \in 0..scores.N : solved.dp[j] = MaxTotal(j)
    /\ solved.ok
    /\ [k \in DOMAIN solved.segments |-> solved.segments[k].len] \in Partitions(scores.N)
    /\ \A k \in DOMAIN solved.segments :
         solved.segments[k].start =
           StartOf([m \in DOMAIN solved.segments |-> solved.segments[m].len], k)
    /\ SumSegments(solved.segments) = MaxTotal(scores.N)

\* the optimum takes a multi-syllable span that does not start at 0 and is
\* better than both the single syllables and the longest span first
C19_Witness ==
  /\ solved.done
  /\ scores.N = 4
  /\ Len(solved.segments) >= 2
  /\ \E k \in DOMAIN solved.segments : solved.segments[k].len >= 2 /\ solved.segments[k].start > 0
  /\ solved.dp[4] > 4
  /\ solved.dp[4] > scores.spans[<<0, 4>>].score
  /\ SumSegments(solved.segments) = solved.dp[4]

\* the spans ending at j whose score added to dp[start] reaches dp[j]
Achievers(j) ==
  {i \in 0..(j - 1) : j - i <= 4 /\ solved.dp[i] + scores.spans[<<i, j - i>>].score = solved.dp[j]}

\* C20: for every end position j, choice[j] is the span with the smallest
\* start (the longest one) among the spans ending at j that achieve dp[j].
C20_TieBreakSmallestStart ==
  solved.done =>
    \A j \in 1..scores.N :
      /\ solved.choice[j].start = SetMin(Achievers(j))
      /\ solved.choice[j].len = j - solved.choice[j].start

\* a tie at the last position between spans of different length
C20_Witness ==
  /\ solved.done
  /\ scores.N >= 3
  /\ Cardinality(Achievers(scores.N)) >= 2
  /\ solved.choice[scores.N].start = SetMin(Achievers(scores.N))
  /\ solved.choice[scores.N].len >= 2

\* ------------------------------------------- coincidental groupings (C21)
\* the scores of the single-syllable spans under candidate c, summed
RECURSIVE SinglesTotal(_, _, _)
SinglesTotal(spans, i, len) ==
  IF len = 0 THEN 0 ELSE spans[<<i, 1>>].score + SinglesTotal(spans, i + 1, len - 1)

\* C21: a returned segmentation holds no multi-syllable span that step 3
\* classified as not a compound (score len * 1) while the single-syllable
\* spans over the same syllables reach the same total score.
C21_CoincidenceLoses ==
  Returned("segment") =>
    \A k \in DOMAIN outcome.value :
      LET e == outcome.value[k]
      IN  ~ /\ e.len >= 2
            /\ ~e.fromDictionary
            /\ e.score = PlainScore(e.len)
            /\ SinglesTotal(lastSpans, e.start, e.len) = e.score

\* ------------------------------------------------------------ batching (C22)
BatchSizeOf(fn) == IF fn = "gemini" THEN GEMINI_BATCH ELSE GOOGLE_BATCH

\* the texts of the call that had no cache hit when it started, in input order
UncachedAtStart ==
  [k \in DOMAIN tcall.uncachedIndices |-> tcall.texts[tcall.uncachedIndices[k]]]

\* C22: every request carries between 1 and 128 texts (Google) or between 1
\* and 20 texts numbered 1..k (Gemini); the batches sent so far, concatenated,
\* are the uncached texts in input order (all of them once the call has
\* returned); and the result of item j of the batch at offset b is stored at
\* the input position of uncached text b + j.
C22_Batching ==
  (tcall.status \in {"await", "return"} /\ tcall.sent # <<>>) =>
    LET size == BatchSizeOf(tcall.fn)
        all == Concat(tcall.sent)
    IN  /\ \A b \in DOMAIN tcall.sent :
             /\ Len(tcall.sent[b]) \in 1..size
             /\ tcall.fn = "gemini" =>
                  \A k \in DOMAIN tcall.numbered[b] : tcall.numbered[b][k].num = k
             /\ \A k \in DOMAIN tcall.numbered[b] : tcall.numbered[b][k].text = tcall.sent[b][k]
        /\ Len(all) <= Len(UncachedAtStart)
        /\ all = SubSeq(UncachedAtStart, 1, Len(all))
        /\ tcall.status = "return" => all = UncachedAtStart
        /\ \A k \in DOMAIN tcall.stored :
             LET e == tcall.stored[k]
             IN  e.j \in 1..Len(tcall.sent[(e.b \div size) + 1]) =>
                   e.at = tcall.uncachedIndices[e.b + e.j]

\* --------------------------------------------- calls in flight together (C23)
ConcReturned(id) ==
  inflight[id].op = "translate" /\ inflight[id].pc = "done" /\ inflight[id].status = "return"

\* every returned list is as long as its input and holds, position by
\* position, a translation the backend gave for that very text
ReturnsOwnTranslations ==
  \A id \in DOMAIN inflight :
    ConcReturned(id) =>
      LET c == inflight[id]
      IN  /\ Len(c.value) = Len(c.input.texts)
          /\ \A k \in DOMAIN c.input.texts :
               /\ c.value[k].def
               /\ <<CacheKey(c.input.source, c.input.target, c.input.texts[k]), c.value[k].s>>
                    \in obtained

\* every cache entry is a translation the backend gave for exactly its key
CacheHoldsObtained ==
  \A key \in DOMAIN translationCache : <<key, translationCache[key]>> \in obtained

\* C23: under any interleaving of concurrent translate calls at their
\* fetches, all sharing the one cache, every call returns a list of the
\* length and order of its input, and every cache entry is a translation some
\* call obtained from the backend for exactly its (source, target, text) key.
C23_LockFreeCacheSafety == ReturnsOwnTranslations /\ CacheHoldsObtained

\* the same while every response so far was OK and held a non-empty
\* translation for every item of its batch
CacheSafeWhenComplete ==
  (faults = 0 /\ \A p \in obtained : p[2] # <<>>) =>
    (ReturnsOwnTranslations /\ CacheHoldsObtained)

\* ------------------------------------------------- lexicon growth (C29)
\* one step keeps every key, keeps every non-empty translation, and what it
\* adds or changes is the lowercased text of a multi-syllable span
LexiconGrows ==
  /\ \A k \in DOMAIN dictionary :
       /\ k \in DOMAIN dictionary'
       /\ dictionary[k] # <<>> => dictionary'[k] = dictionary[k]
  /\ \A k \in DOMAIN dictionary' :
       (k \notin DOMAIN dictionary \/ dictionary'[k] # dictionary[k]) =>
         (k = toLowerCase(k) /\ Len(k) >= 2)

\* C29: across smartSegmentAndTranslate calls, also concurrent ones
\* interleaved at the backend await, no lexicon key is removed and the
\* translation of a key that has a non-empty translation is never changed; the
\* only mutation is the insertion of the lowercased text of a detected compound.
C29_LexiconOnlyGrows == [][LexiconGrows]_vars

\* ------------------------------------------------- cache contents (C28)
\* call id returned the untranslated source text of its k-th text, read from
\* the cache
SourceTextFromCache(id, k) ==
  /\ ConcReturned(id)
  /\ inflight[id].value[k] = Str(inflight[id].input.texts[k])
  /\ CacheHit(inflight[id].tcall.cacheAtStart, inflight[id].input.source,
              inflight[id].input.target, inflight[id].input.texts[k])

\* C28: every value in the translation cache is a translation the backend
\* returned for that text; the identity fallback for a missing or empty
\* response line is never stored, so no later call gets the untranslated
\* source text as a cache hit.
C28_CacheOnlyRealTranslations ==
  /\ \A key \in DOMAIN translationCache :
       translationCache[key] = key[3] => <<key, key[3]>> \in obtained
  /\ \A id \in {x \in DOMAIN inflight : inflight[x].op = "translate"} :
       \A k \in DOMAIN inflight[id].input.texts :
         SourceTextFromCache(id, k) =>
           <<CacheKey(inflight[id].input.source, inflight[id].input.target,
                      inflight[id].input.texts[k]), inflight[id].input.texts[k]>> \in obtained

\* ------------------------------------------------- DP and backtrack (C30)
\* step 3 reads .toLowerCase() / .split() of an undefined translation
Step3Throws ==
  \E c \in DOMAIN lastSpans :
    /\ c[2] >= 2
    /\ ~lastSpans[c].fromDictionary
    /\ \/ ~lastSpans[c].translation.def
       \/ \E m \in 1..c[2] : ~lastSpans[<<c[1] + m - 1, 1>>].translation.def

\* the last smartSegmentAndTranslate call got to step 4
DPReached == outcome.op = "segment" /\ lastSpans # NoScored /\ ~Step3Throws

\* C30: whenever the DP stage is reached, every candidate span (i, len) with
\* len <= min(4, N - i) is non-null with score >= 1; dp[j] is finite and
\* choice[j] is defined with 0 <= start < j for every j in 1..N; the backtrack
\* from N reaches 0 in at most N steps, and the call returns its segments.
C30_BacktrackWellDefined ==
  DPReached =>
    LET N == Len(Normalize(outcome.input))
        r == SolveDP(lastSpans, N)
        back == Backtrack(r.choice, N, N + 1)
    IN  /\ DOMAIN lastSpans = CandSet(N)
        /\ \A c \in CandSet(N) : ~lastSpans[c].null /\ lastSpans[c].score >= 1
        /\ \A j \in 1..N :
             /\ r.dp[j] # NegInf
             /\ r.choice[j] # NoChoice
             /\ r.choice[j].start >= 0
             /\ r.choice[j].start < j
             /\ r.choice[j].start + r.choice[j].len = j
        /\ back.ok
        /\ Len(back.segments) \in 1..N
        /\ outcome.status = "return"
        /\ [k \in DOMAIN outcome.value |->
              [start |-> outcome.value[k].start, len |-> outcome.value[k].len]] = back.segments

C30_Witness ==
  /\ DPReached
  /\ API_KEY
  /\ Len(Normalize(outcome.input)) >= 4
  /\ \E c \in DOMAIN lastSpans : c[2] = 1 /\ ~lastSpans[c].fromDictionary /\ lastSpans[c].score = 1
  /\ faults > 0
  /\ Len(outcome.value) >= 2

\* ------------------------------------------- segments of the output file (C27)
\* C27: in every segment written to the output file, the utterances of the
\* Conversation entries are exactly the utterances joined into the Raw
\* Vietnamese text, in the order they were recognized.
C27_SegmentConsistent ==
  \A b \in DOMAIN markdownFile.blocks :
    markdownFile.blocks[b].entries = markdownFile.blocks[b].raw

\* ------------------------------------------------------- reconnects (C24-C26)
ReconnectsBounded ==
  /\ Len(audit.sinceOpen) <= 3
  /\ \A k \in DOMAIN audit.sinceOpen : audit.sinceOpen[k] = 1000 * 2^(k - 1)
  /\ link.reconnectAttempts > 3 => link.isShuttingDown

OpenStep ==
  \E c \in DOMAIN connections :
    connections[c].status = "connecting" /\ connections'[c].status = "open"

ReconnectStep ==
  /\ (link.reconnectAttempts <= 3 /\ link'.reconnectAttempts > 3) =>
       (link'.isShuttingDown /\ Len(timers') = Len(timers))
  /\ OpenStep => link'.reconnectAttempts = 0
  /\ link.isShuttingDown =>
       (Len(timers') = Len(timers) /\ Len(connections') = Len(connections))

\* C24: since the last Open (or the start) attemptReconnect has scheduled at
\* most 3 reconnects, the k-th with a delay of 1000 * 2^(k-1) ms; the call that
\* raises reconnectAttempts above 3 schedules nothing and calls shutdown; an
\* Open sets reconnectAttempts to 0; once isShuttingDown is true no reconnect
\* is scheduled and no connection is created.
C24_ReconnectBound == []ReconnectsBounded /\ [][ReconnectStep]_vars

C24_Witness ==
  /\ link.reconnectAttempts > 3
  /\ link.isShuttingDown
  /\ Len(audit.sinceOpen) = 3
  /\ soxListeners = Len(connections)
  /\ \E t \in DOMAIN timers : timers[t].pending

\* C25: the failure of one connection, also when it delivers both an Error
\* and a Close event, raises reconnectAttempts once, leaves at most one
\* reconnect timer pending and leads to at most one new connection.
C25_OneFailureOneReconnect ==
  \A c \in DOMAIN connections :
    /\ connections[c].attempts <= 1
    /\ Cardinality({t \in DOMAIN timers : timers[t].cause = c /\ timers[t].pending}) <= 1
    /\ Cardinality({d \in DOMAIN connections : connections[d].cause = c}) <= 1

\* C26: each audio chunk sox emits is sent to the current Deepgram connection
\* at most once, also after reconnects.
C26_NoDuplicatedAudio == audit.lastSends <= 1

====
